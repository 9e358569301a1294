-------------------------- MODULE FileDownloadProofs --------------------------
(***************************************************************************)
(* What download() leaves under a file's final name is what was asked for, *)
(* for every size, every slice and every budget of attempts, whether the   *)
(* file comes as one stream (FileDownload) or in parts that several        *)
(* threads fetch side by side (RangedDownload).                            *)
(*                                                                         *)
(* The heart of the stream's invariant is Placed: while a body is read,    *)
(* the partial is the run of positions that ends where the response goes   *)
(* on.  Open must establish it from what the response says of itself, and  *)
(* everything that may follow (a short read, a cut, a crash) only shortens *)
(* the run.  The parts keep it as it is, for nothing of a stream moves     *)
(* while they are at work; their own invariant says how far each has come. *)
(***************************************************************************)
EXTENDS RangedDownload, TLAPS, WellFoundedInduction, NaturalsInduction

Active == {"try", "answered", "reading", "broken"}

\* No call works on a file that is there under its final name.
NotYetSaved == pc \in Active => save = Missing

Fits == tmp # Missing => Len(tmp) <= Size

OffsetIsSize == pc \in {"try", "answered"} /\ item = Whole => offset = Stored(tmp)

Answered == pc = "answered" => Truthful(reply) /\ written = 0

Placed ==
  pc = "reading" =>
    /\ tmp # Missing /\ reply.status \in {"200", "206"} /\ written <= Body
    /\ item = Whole => reply.first = offset /\ tmp = Run(0, offset + written)
    /\ item # Whole => /\ offset = 0 /\ tmp = Run(item[1], written)
                       /\ reply.first = item[1] /\ reply.last = SliceLast
                       /\ ContentLength = Body

\* A slice never learns the complete length.
SliceUnknown == item # Whole => known = 0

FInv ==
  /\ TypeOK /\ NotYetSaved /\ PartialIsPrefix /\ Fits
  /\ OffsetIsSize /\ Answered /\ Placed /\ SliceUnknown /\ SavedIsWhole

-----------------------------------------------------------------------------
(* Runs of positions.                                                      *)

\* A run within the resource is a file of its length.
LEMMA RunIsFile == ASSUME NEW a \in Nat, NEW n \in Nat, a + n <= Size, Size \in Nat
                   PROVE  Run(a, n) \in Seq(Byte) /\ Len(Run(a, n)) = n
<1>1. \A k \in 1..n : a + k - 1 \in Byte  BY DEF Byte
<1>2. Run(a, n) \in [1..n -> Byte]  BY <1>1 DEF Run
<1> QED  BY <1>2

\* A run goes on where it stopped.
LEMMA RunConcat == ASSUME NEW a \in Nat, NEW n \in Nat, NEW m \in Nat
                   PROVE  Run(a, n) \o Run(a + n, m) = Run(a, n + m)
<1>1. Run(a, n) \in Seq(Int) /\ Len(Run(a, n)) = n
  <2>1. Run(a, n) \in [1..n -> Int]  BY DEF Run
  <2> QED  BY <2>1
<1>2. Run(a + n, m) \in Seq(Int) /\ Len(Run(a + n, m)) = m
  <2>1. Run(a + n, m) \in [1..m -> Int]  BY DEF Run
  <2> QED  BY <2>1
<1>3. Run(a, n) \o Run(a + n, m) \in Seq(Int) /\ Len(Run(a, n) \o Run(a + n, m)) = n + m
  BY <1>1, <1>2
<1>4. \A k \in 1..(n + m) : (Run(a, n) \o Run(a + n, m))[k] = a + k - 1
  BY <1>1, <1>2 DEF Run
<1> QED  BY <1>3, <1>4 DEF Run

\* What a crash leaves of a run is a run.
LEMMA RunPrefix == ASSUME NEW a \in Nat, NEW n \in Nat, NEW m \in 0..n
                   PROVE  SubSeq(Run(a, n), 1, m) = Run(a, m)
<1>1. Run(a, n) \in Seq(Int) /\ Len(Run(a, n)) = n
  <2>1. Run(a, n) \in [1..n -> Int]  BY DEF Run
  <2> QED  BY <2>1
<1>2. SubSeq(Run(a, n), 1, m) \in Seq(Int) /\ Len(SubSeq(Run(a, n), 1, m)) = m  BY <1>1
<1>3. \A k \in 1..m : SubSeq(Run(a, n), 1, m)[k] = a + k - 1  BY <1>1 DEF Run
<1> QED  BY <1>2, <1>3 DEF Run

\* Nothing is a run of length zero.
LEMMA RunEmpty == ASSUME NEW a \in Nat
                  PROVE  Run(a, 0) = <<>>
<1>1. Run(a, 0) \in [1..0 -> Int]  BY DEF Run
<1>2. Run(a, 0) \in Seq(Int) /\ Len(Run(a, 0)) = 0  BY <1>1
<1> QED  BY <1>2

\* The constants, one by one.
LEMMA Constants ==
  /\ Size \in Nat /\ Size >= 1 /\ MaxAttempts \in Nat /\ MaxAttempts >= 1
  /\ MinProgress \in Nat /\ Chunk \in Nat /\ MinChunk \in Nat
  /\ MaxResumes \in Nat /\ MaxCalls \in Nat
  /\ \A s \in Slices : /\ s[1] \in Nat /\ s[2] \in Nat /\ s[1] < Size /\ s[1] <= s[2]
  /\ Missing \notin Seq(Byte)
  BY FileAssumption

\* An answer of which nothing is known yet.
LEMMA NoReplyIsReply == NoReply \in Reply
  BY Constants DEF NoReply, Reply

-----------------------------------------------------------------------------
\* The invariant holds of what an earlier run may have left.
LEMMA FInvInit == Init => FInv
<1> SUFFICES ASSUME Init PROVE FInv  OBVIOUS
<1> USE Constants
<1>1. [k \in 1..Size |-> Size] \in Seq(Byte)
  <2>1. [k \in 1..Size |-> Size] \in [1..Size -> Byte]  BY DEF Byte
  <2> QED  BY <2>1
<1>2. \A n \in 0..Size : Run(0, n) \in Seq(Byte) /\ Len(Run(0, n)) = n
  <2> SUFFICES ASSUME NEW n \in 0..Size PROVE Run(0, n) \in Seq(Byte) /\ Len(Run(0, n)) = n
    OBVIOUS
  <2>1. 0 \in Nat /\ n \in Nat /\ 0 + n <= Size  OBVIOUS
  <2> QED  BY <2>1, RunIsFile
<1>3. Run(0, 0) = <<>>  BY RunEmpty
<1>a. <<>> \in Seq(Byte)  OBVIOUS
<1>4. TypeOK
  <2>1. save \in Seq(Byte) \cup {Missing} /\ tmp \in Seq(Byte) \cup {Missing}
    BY <1>1, <1>2, <1>a DEF Init
  <2>2. pc \in Ended \cup {"try", "answered", "reading", "broken", "clearing"} /\ bared \in BOOLEAN
    BY DEF Init, Ended
  <2>3. item \in {Whole} \cup Slices /\ reply \in Reply /\ cancelled \in BOOLEAN
    BY NoReplyIsReply DEF Init
  <2>4. /\ offset \in 0..Size /\ from \in 0..Size /\ secured \in 0..Size /\ written \in 0..Size
        /\ attempts \in 1..MaxAttempts /\ resumes \in 0..MaxResumes /\ high \in 0..Size
        /\ limit \in Nat /\ known \in {0, Size} /\ calls \in 0..MaxCalls
    BY DEF Init
  <2> QED  BY <2>1, <2>2, <2>3, <2>4 DEF TypeOK
<1>5. PartialIsPrefix /\ Fits  BY <1>2, <1>3 DEF Init, PartialIsPrefix, Fits
<1>6. NotYetSaved /\ OffsetIsSize /\ Answered /\ Placed /\ SliceUnknown
  BY DEF Init, NotYetSaved, Active, OffsetIsSize, Answered, Placed, SliceUnknown
<1>7. SavedIsWhole  BY <1>2, <1>a DEF Init, SavedIsWhole
<1> QED  BY <1>4, <1>5, <1>6, <1>7 DEF FInv

\* What an answer says of itself.
LEMMA ReplyFacts ==
  ASSUME reply \in Reply
  PROVE  /\ reply.first \in Nat /\ reply.last \in Nat /\ reply.first <= reply.last
         /\ reply.last <= Size - 1 /\ Body \in Nat /\ Body >= 1 /\ reply.first + Body <= Size
         /\ reply.status # "206" => reply.first = 0 /\ reply.last = Size - 1
  BY Constants DEF Reply, Body

\* Steps that leave the files alone and give the response back, or end the try.
LEMMA LeavesDisk ==
  ASSUME FInv, Stop \/ Refuse \/ Cut \/ StopMidBody \/ ReadShort \/ GiveUp
  PROVE  FInv'
<1> USE Constants, NoReplyIsReply
<1>1. UNCHANGED <<disk, place, budget, learned, cancelled, calls>>
  BY DEF Stop, Refuse, Cut, StopMidBody, ReadShort, GiveUp
<1>2. pc \in Active /\ pc' \in {"broken", "stopped", "failed"} /\ reply' \in {reply, NoReply}
  BY DEF Stop, Refuse, Cut, StopMidBody, ReadShort, GiveUp, Active, BodyDone
<1>3. TypeOK'  BY <1>1, <1>2 DEF FInv, TypeOK, disk, place, budget, learned, Ended
<1>4. NotYetSaved'  BY <1>1, <1>2 DEF FInv, NotYetSaved, Active, disk
<1>5. PartialIsPrefix' /\ Fits'  BY <1>1 DEF FInv, PartialIsPrefix, Fits, disk
<1>6. OffsetIsSize' /\ Answered' /\ Placed'  BY <1>2 DEF OffsetIsSize, Answered, Placed
<1>7. SliceUnknown'  BY <1>1 DEF FInv, SliceUnknown, disk, learned
<1>8. SavedIsWhole'  BY <1>1 DEF FInv, SavedIsWhole, Wanted, SliceLast, disk
<1> QED  BY <1>3, <1>4, <1>5, <1>6, <1>7, <1>8 DEF FInv

\* A call starts from the size of the partial, or has files of a ranged download
\* to remove first.
LEMMA CallKeeps == ASSUME FInv, Call PROVE FInv'
<1> USE Constants
<1>1. /\ UNCHANGED <<item, save, tmp, bared, from, secured, written, reply>>
      /\ pc' \in {"try", "done", "clearing"} /\ (pc' = "try" => save = Missing)
      /\ offset' \in {offset, Stored(tmp)} /\ (pc' = "try" => offset' = Stored(tmp))
      /\ known' = 0
  BY DEF Call
<1>2. offset' \in 0..Size  BY <1>1 DEF FInv, TypeOK, Fits, Stored
<1>3. TypeOK'
  <2>1. /\ attempts' \in 1..MaxAttempts /\ resumes' \in 0..MaxResumes /\ high' \in 0..Size
        /\ limit' \in Nat /\ known' \in {0, Size} /\ calls' \in 0..MaxCalls
    BY DEF Call, FInv, TypeOK
  <2>2. cancelled' \in BOOLEAN  BY DEF Call
  <2> QED  BY <1>1, <1>2, <2>1, <2>2 DEF FInv, TypeOK, Ended
<1>4. NotYetSaved' /\ OffsetIsSize' /\ Answered' /\ Placed'
  BY <1>1 DEF NotYetSaved, Active, OffsetIsSize, Stored, Answered, Placed
<1>5. PartialIsPrefix' /\ Fits' /\ SavedIsWhole' /\ SliceUnknown'
  BY <1>1 DEF FInv, PartialIsPrefix, Fits, SavedIsWhole, Wanted, SliceLast, SliceUnknown
<1> QED  BY <1>3, <1>4, <1>5 DEF FInv

\* The files of a ranged download go, and nothing is left to resume from.
LEMMA ClearKeeps == ASSUME FInv, ClearControl \/ ClearFile PROVE FInv'
<1> USE Constants
<1>1. CASE ClearControl
  <2>1. /\ UNCHANGED <<item, save, pc, place, budget, learned, reply, cancelled, calls>>
        /\ pc = "clearing" /\ tmp' = Missing /\ bared' = TRUE
    BY <1>1 DEF ClearControl
  <2>2. TypeOK'  BY <2>1 DEF FInv, TypeOK, place, budget, learned
  <2>3. NotYetSaved' /\ OffsetIsSize' /\ Answered' /\ Placed'
    BY <2>1 DEF NotYetSaved, Active, OffsetIsSize, Answered, Placed
  <2>4. PartialIsPrefix' /\ Fits' /\ SavedIsWhole' /\ SliceUnknown'
    BY <2>1 DEF FInv, PartialIsPrefix, Fits, SavedIsWhole, SliceUnknown, learned
  <2> QED  BY <2>2, <2>3, <2>4 DEF FInv
<1>2. CASE ClearFile
  <2>1. /\ UNCHANGED <<item, from, secured, written, attempts, resumes, high, limit, known, reply, cancelled,
                        calls>>
        /\ tmp = Missing /\ tmp' = Missing /\ save' = Missing /\ bared' = FALSE
        /\ pc' = "try" /\ offset' = 0
    BY <1>2 DEF ClearFile, budget, learned
  <2>2. TypeOK'
    <3>1. 0 \in 0..Size  OBVIOUS
    <3>2. bared' \in BOOLEAN  BY <1>2 DEF ClearFile
    <3> QED  BY <2>1, <3>1, <3>2 DEF FInv, TypeOK
  <2>3. NotYetSaved' /\ OffsetIsSize' /\ Answered' /\ Placed'
    BY <2>1 DEF NotYetSaved, OffsetIsSize, Stored, Answered, Placed
  <2>4. PartialIsPrefix' /\ Fits' /\ SavedIsWhole' /\ SliceUnknown'
    BY <2>1 DEF FInv, PartialIsPrefix, Fits, SavedIsWhole, SliceUnknown
  <2> QED  BY <2>2, <2>3, <2>4 DEF FInv
<1> QED  BY <1>1, <1>2

\* The server answers what was asked.
LEMMA AskKeeps == ASSUME FInv, Ask PROVE FInv'
<1> USE Constants
<1>1. /\ UNCHANGED <<item, save, tmp, bared, offset, attempts, resumes, high, limit, known, cancelled, calls>>
      /\ reply' \in Reply /\ pc = "try" /\ pc' = "answered"
      /\ written' = 0 /\ from' = offset /\ secured' = offset
  BY DEF Ask, disk, budget, learned
<1>2. TypeOK'  BY <1>1 DEF FInv, TypeOK
<1>3. Answered'  BY <1>1 DEF Ask, Answered, Truthful, Range
<1>4. NotYetSaved' /\ OffsetIsSize' /\ Placed'
  BY <1>1 DEF FInv, NotYetSaved, Active, OffsetIsSize, Stored, Placed
<1>5. PartialIsPrefix' /\ Fits' /\ SliceUnknown'  BY <1>1 DEF FInv, PartialIsPrefix, Fits, SliceUnknown
<1>6. SavedIsWhole'  BY <1>1 DEF FInv, NotYetSaved, Active, SavedIsWhole
<1> QED  BY <1>2, <1>3, <1>4, <1>5, <1>6 DEF FInv

\* The partial that a 416 confirms is the resource.
LEMMA FoundCompleteKeeps == ASSUME FInv, FoundComplete PROVE FInv'
<1> USE Constants, NoReplyIsReply
<1>1. /\ item = Whole /\ item' = item /\ pc = "answered" /\ pc' = "done"
      /\ save' = tmp /\ tmp' = Missing /\ offset = Size
      /\ UNCHANGED <<bared, offset, from, secured, written, attempts, resumes, high, limit, known, cancelled, calls>>
      /\ reply' \in Reply
  BY DEF FoundComplete, Resuming, place, budget, learned
<1>2. tmp # Missing /\ tmp = Run(0, Size)
  BY <1>1 DEF FInv, OffsetIsSize, PartialIsPrefix, Stored
<1>3. TypeOK'  BY <1>1 DEF FInv, TypeOK, Ended
<1>4. SavedIsWhole'  BY <1>1, <1>2 DEF SavedIsWhole, Wanted
<1>5. NotYetSaved' /\ OffsetIsSize' /\ Answered' /\ Placed' /\ PartialIsPrefix' /\ Fits' /\ SliceUnknown'
  BY <1>1 DEF NotYetSaved, Active, OffsetIsSize, Answered, Placed, PartialIsPrefix, Fits, SliceUnknown
<1> QED  BY <1>3, <1>4, <1>5 DEF FInv

\* A partial that cannot be continued goes.
LEMMA RestartKeeps == ASSUME FInv, Restart PROVE FInv'
<1> USE Constants, NoReplyIsReply
<1>1. /\ UNCHANGED <<item, save, bared, offset, from, secured, written, attempts, resumes, high, limit, known,
                      cancelled, calls>>
      /\ pc = "answered" /\ pc' = "broken" /\ tmp' = Missing /\ reply' \in Reply
  BY DEF Restart, place, budget, learned
<1>2. TypeOK'  BY <1>1 DEF FInv, TypeOK
<1>3. NotYetSaved' /\ SavedIsWhole'  BY <1>1 DEF FInv, NotYetSaved, Active, SavedIsWhole
<1>4. OffsetIsSize' /\ Answered' /\ Placed' /\ PartialIsPrefix' /\ Fits' /\ SliceUnknown'
  BY <1>1 DEF FInv, OffsetIsSize, Answered, Placed, PartialIsPrefix, Fits, SliceUnknown
<1> QED  BY <1>2, <1>3, <1>4 DEF FInv

\* After a failed try the offset is the size of what is on disk.
LEMMA RetryKeeps == ASSUME FInv, Retry PROVE FInv'
<1> USE Constants
<1>1. /\ UNCHANGED <<item, save, tmp, bared, from, secured, written, high, known, reply, cancelled, calls>>
      /\ pc = "broken" /\ pc' = "try" /\ offset' = Stored(tmp)
  BY DEF Retry, disk
<1>2. offset' \in 0..Size  BY <1>1 DEF FInv, TypeOK, Fits, Stored
<1>3. attempts' \in 1..MaxAttempts /\ resumes' \in 0..MaxResumes
  BY DEF Retry, Advanced, FInv, TypeOK
<1>4. limit' \in Nat
  <2>1. limit \div 2 \in Nat  BY DEF FInv, TypeOK
  <2> QED  BY <2>1 DEF Retry, Halved, FInv, TypeOK
<1>5. TypeOK'  BY <1>1, <1>2, <1>3, <1>4 DEF FInv, TypeOK
<1>6. NotYetSaved' /\ SavedIsWhole'  BY <1>1 DEF FInv, NotYetSaved, Active, SavedIsWhole
<1>7. OffsetIsSize' /\ Answered' /\ Placed' /\ PartialIsPrefix' /\ Fits' /\ SliceUnknown'
  BY <1>1 DEF FInv, OffsetIsSize, Answered, Placed, PartialIsPrefix, Fits, SliceUnknown, Stored
<1> QED  BY <1>5, <1>6, <1>7 DEF FInv

\* The file is opened where the response belongs, or not at all.
LEMMA OpenKeeps == ASSUME FInv, Open PROVE FInv'
<1> USE Constants
<1>1. /\ UNCHANGED <<item, save, bared, from, written, attempts, resumes, high, limit, reply, cancelled, calls>>
      /\ pc = "answered" /\ pc' = "reading" /\ reply.status \in {"200", "206"}
      /\ secured' = offset' /\ ~RestartsClean /\ (item # Whole => SliceFits)
  BY DEF Open, budget
<1>2. reply \in Reply /\ offset \in 0..Size /\ item \in {Whole} \cup Slices /\ written = 0
  BY <1>1 DEF FInv, TypeOK, Answered
<1>3. known' \in {0, Size} /\ (item # Whole => known' = known)
  BY DEF Open, FInv, TypeOK
<1>4. CASE InPlace
  <2>1. item = Whole /\ offset > 0 /\ reply.first = offset /\ offset' = offset /\ tmp' = tmp
    BY <1>4 DEF Open, InPlace, Resuming
  <2>2. tmp # Missing /\ tmp \in Seq(Byte) /\ tmp = Run(0, offset) /\ Len(tmp) = offset
    BY <1>1, <2>1 DEF FInv, TypeOK, OffsetIsSize, PartialIsPrefix, Stored
  <2>3. TypeOK'  BY <1>1, <1>3, <2>1 DEF FInv, TypeOK
  <2>4. Placed'  BY <1>1, <1>2, <2>1, <2>2, ReplyFacts DEF Placed, Body
  <2>5. PartialIsPrefix' /\ Fits' /\ NotYetSaved' /\ SavedIsWhole' /\ OffsetIsSize' /\ Answered' /\ SliceUnknown'
    BY <1>1, <2>1 DEF FInv, PartialIsPrefix, Fits, NotYetSaved, Active, SavedIsWhole, OffsetIsSize, Answered,
                      SliceUnknown
  <2> QED  BY <2>3, <2>4, <2>5 DEF FInv
<1>5. CASE ~InPlace
  <2>1. offset' = 0 /\ tmp' = <<>>  BY <1>5 DEF Open
  <2>2. <<>> \in Seq(Byte) /\ Len(<<>>) = 0  OBVIOUS
  <2>3. tmp' # Missing /\ tmp' \in Seq(Byte) /\ Len(tmp') = 0  BY <2>1, <2>2
  <2>4. TypeOK'  BY <1>1, <1>3, <2>1, <2>3 DEF FInv, TypeOK
  <2>5. Fits' /\ NotYetSaved' /\ SavedIsWhole' /\ OffsetIsSize' /\ Answered' /\ SliceUnknown'
    BY <1>1, <1>3, <2>3 DEF FInv, Fits, NotYetSaved, Active, SavedIsWhole, OffsetIsSize, Answered, SliceUnknown
  <2>6. CASE item = Whole
    <3>1. tmp' = Run(0, 0)  BY <2>1, RunEmpty
    <3>2. reply.first = 0
      BY <1>1, <1>2, <1>5, <2>6, ReplyFacts DEF RestartsClean, FromZero, Resuming, FInv, Answered, Truthful, Range
    <3>3. Placed'  BY <1>1, <1>2, <2>1, <2>3, <2>6, <3>1, <3>2, ReplyFacts DEF Placed, Body
    <3>4. PartialIsPrefix'  BY <2>3, <3>1 DEF PartialIsPrefix
    <3> QED  BY <2>4, <2>5, <3>3, <3>4 DEF FInv
  <2>7. CASE item # Whole
    <3>1. item \in Slices /\ item[1] \in Nat /\ item[2] \in Nat /\ item[1] < Size /\ item[1] <= item[2]
      BY <1>2, <2>7
    <3>2. tmp' = Run(item[1], 0)  BY <2>1, <3>1, RunEmpty
    <3>3. reply.first = item[1] /\ reply.last = SliceLast /\ ContentLength = Body
      BY <1>1, <1>2, <2>7, <3>1, ReplyFacts DEF SliceFits, SliceLast, ContentLength
    <3>4. SliceLast' = SliceLast /\ ContentLength' = ContentLength /\ Body' = Body
      BY <1>1 DEF Body, SliceLast, ContentLength
    <3>5. Placed'
      <4>1. written' = 0 /\ written' <= Body'  BY <1>1, <1>2, <3>4, ReplyFacts
      <4> QED  BY <1>1, <2>1, <2>3, <2>7, <3>2, <3>3, <3>4, <4>1 DEF Placed
    <3>6. PartialIsPrefix'  BY <1>1, <2>7 DEF PartialIsPrefix
    <3> QED  BY <2>4, <2>5, <3>5, <3>6 DEF FInv
  <2> QED  BY <2>6, <2>7
<1> QED  BY <1>4, <1>5

\* What arrives goes on where the partial stops.
LEMMA ReceiveKeeps == ASSUME FInv, NEW n \in 1..Size, Receive(n) PROVE FInv'
<1> USE Constants
<1>1. /\ UNCHANGED <<item, save, bared, pc, offset, from, secured, attempts, resumes, high, limit, known, reply,
                      cancelled, calls>>
      /\ pc = "reading" /\ n \in 1..Body - written
      /\ tmp' = tmp \o Run(reply.first + written, n) /\ written' = written + n
  BY DEF Receive, budget, learned
<1>2. /\ reply \in Reply /\ written \in 0..Size /\ offset \in 0..Size /\ item \in {Whole} \cup Slices
      /\ tmp \in Seq(Byte) /\ tmp # Missing
  BY <1>1 DEF FInv, TypeOK, Placed
<1>3. written' \in 0..Size /\ written' <= Body /\ Body' = Body  BY <1>1, <1>2, ReplyFacts DEF Body
<1>4. reply.first \in Nat /\ reply.first + written + n <= Size  BY <1>1, <1>2, ReplyFacts
<1>5. CASE item = Whole
  <2>1. reply.first = offset /\ tmp = Run(0, offset + written)  BY <1>1, <1>5 DEF FInv, Placed
  <2>2. tmp' = Run(0, offset + written + n)
    <3>1. 0 \in Nat /\ offset + written \in Nat /\ n \in Nat  BY <1>2
    <3>2. Run(0, offset + written) \o Run(0 + (offset + written), n) = Run(0, (offset + written) + n)
      BY <3>1, RunConcat
    <3>3. 0 + (offset + written) = reply.first + written  BY <1>2, <2>1
    <3> QED  BY <1>1, <2>1, <3>2, <3>3
  <2>3. tmp' \in Seq(Byte) /\ Len(tmp') = offset + written + n
    <3>1. 0 + (offset + written + n) <= Size /\ offset + written + n \in Nat  BY <1>2, <1>4, <2>1
    <3> QED  BY <2>2, <3>1, RunIsFile
  <2> QED
    <3>1. tmp' # Missing /\ TypeOK' /\ Fits'  BY <1>1, <1>2, <1>3, <1>4, <2>1, <2>3 DEF FInv, TypeOK, Fits
    <3>2. PartialIsPrefix'  BY <1>5, <1>1, <2>2, <2>3 DEF PartialIsPrefix
    <3>3. Placed'  BY <1>5, <1>1, <1>2, <1>3, <2>1, <2>2, <3>1 DEF FInv, Placed
    <3>4. NotYetSaved' /\ SavedIsWhole' /\ OffsetIsSize' /\ Answered' /\ SliceUnknown'
      BY <1>1 DEF FInv, NotYetSaved, Active, SavedIsWhole, OffsetIsSize, Answered, SliceUnknown
    <3> QED  BY <3>1, <3>2, <3>3, <3>4 DEF FInv
<1>6. CASE item # Whole
  <2>1. reply.first = item[1] /\ tmp = Run(item[1], written)  BY <1>1, <1>6 DEF FInv, Placed
  <2>2. tmp' = Run(item[1], written + n)
    <3>1. item[1] \in Nat /\ written \in Nat /\ n \in Nat  BY <1>2, <1>4, <2>1
    <3>2. Run(item[1], written) \o Run(item[1] + written, n) = Run(item[1], written + n)
      BY <3>1, RunConcat
    <3> QED  BY <1>1, <2>1, <3>2
  <2>3. tmp' \in Seq(Byte) /\ Len(tmp') = written + n
    <3>1. item[1] \in Nat /\ item[1] + (written + n) <= Size /\ written + n \in Nat  BY <1>2, <1>4, <2>1
    <3> QED  BY <2>2, <3>1, RunIsFile
  <2> QED
    <3>1. tmp' # Missing /\ TypeOK' /\ Fits'
      <4>1. Len(tmp') <= Size /\ tmp' # Missing  BY <1>2, <1>4, <2>3
      <4>2. TypeOK'  BY <1>1, <1>3, <2>3 DEF FInv, TypeOK
      <4> QED  BY <4>1, <4>2 DEF Fits
    <3>2. PartialIsPrefix'  BY <1>6, <1>1 DEF PartialIsPrefix
    <3>3. SliceLast' = SliceLast /\ ContentLength' = ContentLength
      BY <1>1 DEF SliceLast, ContentLength, Body
    <3>4. Placed'  BY <1>6, <1>1, <1>3, <2>2, <3>1, <3>3 DEF FInv, Placed
    <3>5. NotYetSaved' /\ SavedIsWhole' /\ OffsetIsSize' /\ Answered' /\ SliceUnknown'
      BY <1>1 DEF FInv, NotYetSaved, Active, SavedIsWhole, OffsetIsSize, Answered, SliceUnknown
    <3> QED  BY <3>1, <3>2, <3>4, <3>5 DEF FInv
<1> QED  BY <1>5, <1>6

\* The rest is asked for from where the response ended.
LEMMA ContinueKeeps == ASSUME FInv, Continue PROVE FInv'
<1> USE Constants, NoReplyIsReply
<1>1. /\ UNCHANGED <<item, save, tmp, bared, from, secured, written, resumes, limit, known, cancelled, calls>>
      /\ pc = "reading" /\ pc' = "try" /\ reply' \in Reply
      /\ offset' = offset + written /\ ~Short /\ Incomplete /\ offset + written > from
  BY DEF Continue, BodyDone, disk, learned
<1>2. /\ reply \in Reply /\ written \in 0..Size /\ offset \in 0..Size /\ from \in 0..Size
      /\ item \in {Whole} \cup Slices /\ known \in {0, Size} /\ tmp \in Seq(Byte) /\ tmp # Missing
  BY <1>1 DEF FInv, TypeOK, Placed
<1>3. item = Whole
  <2> SUFFICES ASSUME item # Whole PROVE FALSE  OBVIOUS
  <2>1. known = 0 /\ offset = 0 /\ ContentLength = Body  BY <1>1 DEF FInv, SliceUnknown, Placed
  <2>2. written = 0  BY <1>1, <2>1 DEF Incomplete
  <2> QED  BY <1>1, <1>2, <2>1, <2>2
<1>4. tmp = Run(0, offset + written) /\ reply.first = offset /\ written <= Body
  BY <1>1, <1>3 DEF FInv, Placed
<1>5. offset + written \in 0..Size  BY <1>2, <1>4, ReplyFacts
<1>6. Len(tmp) = offset + written
  <2>1. 0 \in Nat /\ offset + written \in Nat /\ 0 + (offset + written) <= Size  BY <1>5
  <2> QED  BY <1>4, <2>1, RunIsFile
<1>7. high' \in 0..Size /\ attempts' \in 1..MaxAttempts
  BY <1>1, <1>5 DEF Continue, FInv, TypeOK
<1>8. TypeOK'  BY <1>1, <1>5, <1>7 DEF FInv, TypeOK
<1>9. OffsetIsSize'  BY <1>1, <1>2, <1>6 DEF OffsetIsSize, Stored
<1>10. NotYetSaved' /\ SavedIsWhole' /\ Answered' /\ Placed' /\ PartialIsPrefix' /\ Fits' /\ SliceUnknown'
  BY <1>1 DEF FInv, NotYetSaved, Active, SavedIsWhole, Answered, Placed, PartialIsPrefix, Fits, SliceUnknown
<1> QED  BY <1>8, <1>9, <1>10 DEF FInv

\* A response that is neither short nor leaves anything out was the last.
LEMMA LastIsWhole ==
  ASSUME FInv, pc = "reading", AtEnd, ~(cancelled /\ (ContentLength = 0 \/ Short)), ~Short, ~Incomplete
  PROVE  tmp = Wanted
<1> USE Constants
<1>1. /\ reply \in Reply /\ written \in 0..Size /\ offset \in 0..Size
      /\ item \in {Whole} \cup Slices /\ known \in {0, Size}
      /\ reply.status \in {"200", "206"} /\ written <= Body
  BY DEF FInv, TypeOK, Placed
<1>2. Body \in Nat /\ Body >= 1 /\ reply.first + Body <= Size
      /\ (reply.status = "200" => reply.first = 0 /\ Body = Size)
  BY <1>1, ReplyFacts DEF Body
<1>3. CASE item = Whole
  <2>1. reply.first = offset /\ tmp = Run(0, offset + written)  BY <1>3 DEF FInv, Placed
  <2>2. offset + written = Size
    <3>1. CASE known # 0  BY <1>1, <1>2, <2>1, <3>1 DEF Incomplete
    <3>2. CASE known = 0
      <4>1. reply.status = "200"  BY <1>1, <1>3, <3>2 DEF Incomplete
      <4>2. written = Body  BY <1>1, <1>2, <4>1 DEF AtEnd, Short, ContentLength
      <4> QED  BY <1>1, <1>2, <2>1, <4>1, <4>2
    <3> QED  BY <3>1, <3>2
  <2> QED  BY <1>3, <2>1, <2>2 DEF Wanted
<1>4. CASE item # Whole
  <2>1. /\ tmp = Run(item[1], written) /\ reply.first = item[1] /\ reply.last = SliceLast
        /\ ContentLength = Body
    BY <1>4 DEF FInv, Placed
  <2>2. written = Body  BY <1>1, <1>2, <2>1 DEF Short
  <2> QED  BY <1>4, <2>1, <2>2 DEF Wanted, Body
<1> QED  BY <1>3, <1>4

\* The partial takes the final name.
LEMMA FinishKeeps == ASSUME FInv, Finish PROVE FInv'
<1> USE Constants, NoReplyIsReply
<1>1. /\ UNCHANGED <<item, bared, offset, from, secured, written, attempts, resumes, high, limit, known, cancelled,
                      calls>>
      /\ pc = "reading" /\ pc' = "done" /\ reply' \in Reply /\ save' = tmp /\ tmp' = Missing
  BY DEF Finish, BodyDone, place, budget, learned
<1>2. tmp = Wanted  BY LastIsWhole DEF Finish, BodyDone
<1>3. Wanted' = Wanted  BY <1>1 DEF Wanted, SliceLast
<1>4. TypeOK'  BY <1>1 DEF FInv, TypeOK, Ended
<1>5. SavedIsWhole'  BY <1>1, <1>2, <1>3 DEF SavedIsWhole
<1>6. NotYetSaved' /\ OffsetIsSize' /\ Answered' /\ Placed' /\ PartialIsPrefix' /\ Fits' /\ SliceUnknown'
  BY <1>1 DEF FInv, NotYetSaved, Active, OffsetIsSize, Answered, Placed, PartialIsPrefix, Fits, SliceUnknown
<1> QED  BY <1>4, <1>5, <1>6 DEF FInv

\* A cancellation is only a flag.
LEMMA CancelKeeps == ASSUME FInv, Cancel PROVE FInv'
<1>1. UNCHANGED <<item, save, tmp, bared, pc, place, budget, learned, reply, calls>> /\ cancelled' = TRUE
  BY DEF Cancel, disk
<1>2. TypeOK'  BY <1>1 DEF FInv, TypeOK, place, budget, learned
<1>3. NotYetSaved' /\ SavedIsWhole' /\ OffsetIsSize' /\ Answered' /\ PartialIsPrefix' /\ Fits' /\ SliceUnknown'
  BY <1>1 DEF FInv, NotYetSaved, SavedIsWhole, Wanted, SliceLast, OffsetIsSize, Stored, Answered, Truthful,
              Range, PartialIsPrefix, Fits, SliceUnknown, place, learned
<1>4. Placed'  BY <1>1 DEF FInv, Placed, Body, SliceLast, ContentLength, place
<1> QED  BY <1>2, <1>3, <1>4 DEF FInv

\* A dead process leaves a shorter partial.
LEMMA CrashKeeps == ASSUME FInv, Crash PROVE FInv'
<1> USE Constants, NoReplyIsReply
<1>1. /\ UNCHANGED <<item, save, bared, offset, from, secured, written, attempts, resumes, high, limit, known,
                      cancelled, calls>>
      /\ pc' = "idle" /\ reply' \in Reply
  BY DEF Crash, place, budget, learned
<1>2. /\ tmp' \in Seq(Byte) \cup {Missing}
      /\ Fits' /\ PartialIsPrefix'
  <2>1. CASE pc # "reading"
    <3>1. tmp' = tmp  BY <2>1 DEF Crash
    <3> QED  BY <1>1, <3>1 DEF FInv, TypeOK, Fits, PartialIsPrefix
  <2>2. CASE pc = "reading"
    <3>1. PICK n \in offset..Len(tmp) : tmp' = SubSeq(tmp, 1, n)  BY <2>2 DEF Crash
    <3>2. tmp \in Seq(Byte) /\ tmp # Missing /\ offset \in 0..Size /\ Len(tmp) <= Size /\ Len(tmp) \in Nat
      BY <2>2 DEF FInv, TypeOK, Placed, Fits
    <3>3. n \in Nat /\ n <= Len(tmp)  BY <3>1, <3>2
    <3>4. tmp' \in Seq(Byte) /\ Len(tmp') = n
      <4>1. \A k \in 1..n : tmp[k] \in Byte  BY <3>2, <3>3
      <4> QED  BY <3>1, <3>2, <3>3, <4>1
    <3>5. item = Whole => tmp' = Run(0, n)
      <4>1. item = Whole => tmp = Run(0, Len(tmp))  BY <3>2 DEF FInv, PartialIsPrefix
      <4>2. SubSeq(Run(0, Len(tmp)), 1, n) = Run(0, n)
        <5>1. 0 \in Nat /\ Len(tmp) \in Nat /\ n \in 0..Len(tmp)  BY <3>2, <3>3
        <5> QED  BY <5>1, RunPrefix
      <4> QED  BY <3>1, <4>1, <4>2
    <3> QED  BY <1>1, <3>2, <3>3, <3>4, <3>5 DEF Fits, PartialIsPrefix
  <2> QED  BY <2>1, <2>2
<1>3. TypeOK'  BY <1>1, <1>2 DEF FInv, TypeOK, Ended
<1>4. NotYetSaved' /\ OffsetIsSize' /\ Answered' /\ Placed' /\ SliceUnknown'
  BY <1>1 DEF FInv, NotYetSaved, Active, OffsetIsSize, Answered, Placed, SliceUnknown
<1>5. SavedIsWhole'
  <2>1. CASE pc = "reading"  BY <1>1, <2>1 DEF FInv, NotYetSaved, Active, SavedIsWhole
  <2>2. CASE pc # "reading"
    <3>1. tmp' = tmp  BY <2>2 DEF Crash
    <3> QED  BY <1>1, <3>1 DEF FInv, SavedIsWhole, Wanted, SliceLast
  <2> QED  BY <2>1, <2>2
<1> QED  BY <1>2, <1>3, <1>4, <1>5 DEF FInv

-----------------------------------------------------------------------------
\* A step of download() keeps it, whoever calls.
LEMMA NextKeeps == ASSUME FInv, [Next]_vars PROVE FInv'
<1>1. CASE Call \/ ClearControl \/ ClearFile  BY <1>1, CallKeeps, ClearKeeps
<1>2. CASE Ask  BY <1>2, AskKeeps
<1>3. CASE FoundComplete  BY <1>3, FoundCompleteKeeps
<1>4. CASE Restart  BY <1>4, RestartKeeps
<1>5. CASE Open  BY <1>5, OpenKeeps
<1>6. CASE \E n \in 1..Size : Receive(n)  BY <1>6, ReceiveKeeps
<1>7. CASE Stop \/ Refuse \/ Cut \/ StopMidBody \/ ReadShort \/ GiveUp  BY <1>7, LeavesDisk
<1>8. CASE Continue  BY <1>8, ContinueKeeps
<1>9. CASE Finish  BY <1>9, FinishKeeps
<1>10. CASE Retry  BY <1>10, RetryKeeps
<1>11. CASE Cancel  BY <1>11, CancelKeeps
<1>12. CASE Crash  BY <1>12, CrashKeeps
<1>13. CASE UNCHANGED vars
  <2>1. UNCHANGED <<item, save, tmp, bared, pc, offset, from, secured, written, attempts, resumes, high, limit,
                    known, reply, cancelled, calls>>
    BY <1>13 DEF vars, disk, place, budget, learned
  <2> QED  BY <2>1 DEF FInv, TypeOK, NotYetSaved, PartialIsPrefix, Fits, OffsetIsSize, Stored, Answered,
                       Truthful, Range, Placed, Body, SliceLast, ContentLength, SliceUnknown,
                       SavedIsWhole, Wanted
<1> QED  BY <1>1, <1>2, <1>3, <1>4, <1>5, <1>6, <1>7, <1>8, <1>9, <1>10, <1>11, <1>12, <1>13 DEF Next, Step

\* The strengthening is an invariant of download(), under any server, any
\* cancellation and any crash.
THEOREM Invariance == Spec => []FInv
<1>1. Init => FInv  BY FInvInit
<1>2. FInv /\ [Next]_vars => FInv'  BY NextKeeps
<1> QED  BY <1>1, <1>2, PTL DEF Spec

\* The offset, the budgets and both files keep their types: no file outgrows the
\* resource and no attempt is counted past MAX_ATTEMPTS.
THEOREM TypeCorrect == Spec => []TypeOK
<1>1. FInv => TypeOK  BY DEF FInv
<1> QED  BY <1>1, Invariance, PTL

\* What stands under the final name, with no .!dev beside it, is what was asked for.
THEOREM WholeFilesOnly == Spec => []SavedIsWhole
<1>1. FInv => SavedIsWhole  BY DEF FInv
<1> QED  BY <1>1, Invariance, PTL

\* The size of a whole file's partial tells exactly which bytes it holds, so that
\* the next try, and the next run, may resume from it.
THEOREM PartialsResumable == Spec => []PartialIsPrefix
<1>1. FInv => PartialIsPrefix  BY DEF FInv
<1> QED  BY <1>1, Invariance, PTL

-----------------------------------------------------------------------------
(* No call goes on for ever.  Every step uses up something of a budget     *)
(* that only shrinks, in a lexicographic order: a step may give back what  *)
(* stands further behind, as progress gives back attempts.                 *)

\* The two removals before the first try, and the end.
Way ==
  IF pc = "clearing" THEN IF tmp = Missing THEN 2 ELSE 3
  ELSE IF pc \in Ended THEN 0 ELSE 1

\* From where the try asks, or is about to.
Asked == IF pc = "try" THEN offset ELSE from

\* Within a try.
Phase ==
  IF pc = "try" THEN 4 ELSE IF pc = "answered" THEN 3 ELSE IF pc = "reading" THEN 2
  ELSE IF pc = "broken" THEN 1 ELSE 0

\* Resumes that cost no attempt; bytes no try has reached; attempts; bytes before
\* the place the tries have come to; and what is left of a try.
Budget == <<Way, MaxResumes - resumes, Size - high, MaxAttempts - attempts, Size - Asked,
            Phase, Size - written>>

Less  == OpToRel(<, Nat)
Lower(k) == LexProductOrdering(Less, Nat, k)

\* The order has no infinite descent.
LEMMA LowerIsWellFounded == ASSUME NEW k \in Nat PROVE IsWellFoundedOn(Lower(k), [1..k -> Nat])
<1>1. IsWellFoundedOn(Less, Nat)  BY NatLessThanWellFounded DEF Less
<1> QED  BY <1>1, WFLexProductOrdering DEF Lower

LEMMA LessThan == ASSUME NEW a \in Nat, NEW b \in Nat, a < b PROVE <<a, b>> \in Less
BY DEF Less, OpToRel

LEMMA LeftOf == ASSUME NEW n \in Nat, NEW a \in 0..n, NEW b \in 0..n, a < b PROVE n - b < n - a
OBVIOUS

\* A budget is lowered at the first place where it differs.
FirstLower(m, n, j, k) == /\ m \in [1..k -> Nat] /\ n \in [1..k -> Nat]
                          /\ \A i \in 1..k : i < j => m[i] = n[i]
                          /\ m[j] < n[j]

LEMMA Lowers == ASSUME NEW k \in Nat, NEW m, NEW n, NEW j \in 1..k, FirstLower(m, n, j, k)
                PROVE  <<m, n>> \in Lower(k)
<1>1. m[j] \in Nat /\ n[j] \in Nat  BY DEF FirstLower
<1>2. <<m[j], n[j]>> \in Less  BY <1>1, LessThan DEF FirstLower
<1>3. \A i \in 1..(j - 1) : m[i] = n[i]  BY DEF FirstLower
<1> QED  BY <1>2, <1>3 DEF Lower, LexProductOrdering, FirstLower

Budgeted == Budget \in [1..7 -> Nat]

LEMMA BudgetTyped == ASSUME FInv PROVE Budgeted
<1> USE Constants
<1>1. Way \in Nat /\ Phase \in Nat  BY DEF Way, Phase
<1>2. MaxResumes - resumes \in Nat /\ MaxAttempts - attempts \in Nat  BY DEF FInv, TypeOK
<1>3. Size - high \in Nat /\ Size - Asked \in Nat /\ Size - written \in Nat
  BY DEF FInv, TypeOK, Asked
<1> QED  BY <1>1, <1>2, <1>3 DEF Budgeted, Budget

\* A step of a call, looked at through its budget.
LEMMA StepUses ==
  ASSUME FInv, Step, FInv', Budgeted, Budgeted'
  PROVE  <<Budget', Budget>> \in Lower(7)
<1> USE Constants
<1>1. SUFFICES \E j \in 1..7 : FirstLower(Budget', Budget, j, 7)
  BY Lowers
<1> USE DEF Budgeted
<1>2. /\ Budget[1] = Way /\ Budget[2] = MaxResumes - resumes /\ Budget[3] = Size - high
      /\ Budget[4] = MaxAttempts - attempts /\ Budget[5] = Size - Asked /\ Budget[6] = Phase
      /\ Budget[7] = Size - written
  BY DEF Budget
<1>3. /\ Budget'[1] = Way' /\ Budget'[2] = MaxResumes - resumes' /\ Budget'[3] = Size - high'
      /\ Budget'[4] = MaxAttempts - attempts' /\ Budget'[5] = Size - Asked' /\ Budget'[6] = Phase'
      /\ Budget'[7] = Size - written'
  BY DEF Budget
<1>4. /\ offset \in 0..Size /\ from \in 0..Size /\ written \in 0..Size /\ high \in 0..Size
      /\ attempts \in 1..MaxAttempts /\ resumes \in 0..MaxResumes
      /\ offset' \in 0..Size /\ from' \in 0..Size /\ written' \in 0..Size /\ high' \in 0..Size
      /\ attempts' \in 1..MaxAttempts /\ resumes' \in 0..MaxResumes
  BY DEF FInv, TypeOK
<1>5. CASE ClearControl \/ ClearFile
  <2>1. Way' < Way
    <3>1. CASE ClearControl  BY <3>1 DEF ClearControl, Way
    <3>2. CASE ClearFile  BY <3>2 DEF ClearFile, Way, Ended
    <3> QED  BY <1>5, <3>1, <3>2
  <2> QED  BY <1>2, <1>3, <2>1 DEF FirstLower
<1>6. CASE Stop \/ FoundComplete \/ StopMidBody \/ Finish \/ GiveUp
  <2>1. pc \in {"try", "answered", "reading", "broken"} /\ pc' \in {"stopped", "done", "failed"}
    <3>1. CASE Stop  BY <3>1 DEF Stop
    <3>2. CASE FoundComplete  BY <3>2 DEF FoundComplete
    <3>3. CASE StopMidBody  BY <3>3 DEF StopMidBody
    <3>4. CASE Finish  BY <3>4 DEF Finish, BodyDone
    <3>5. CASE GiveUp  BY <3>5 DEF GiveUp
    <3> QED  BY <1>6, <3>1, <3>2, <3>3, <3>4, <3>5
  <2>2. Way' = 0 /\ Way = 1  BY <2>1 DEF Way, Ended
  <2> QED  BY <1>2, <1>3, <2>2 DEF FirstLower
<1>7. CASE Ask
  <2>1. /\ UNCHANGED <<attempts, resumes, high>> /\ from' = offset
        /\ pc = "try" /\ pc' = "answered"
    BY <1>7 DEF Ask, budget
  <2>2. Way' = Way /\ Asked' = Asked /\ Phase' < Phase  BY <2>1 DEF Way, Ended, Asked, Phase
  <2> QED  BY <1>2, <1>3, <2>1, <2>2 DEF FirstLower
<1>8. CASE Restart \/ Refuse \/ Open \/ Cut \/ ReadShort
  <2>1. /\ UNCHANGED <<from, attempts, resumes, high>>
        /\ \/ pc = "answered" /\ pc' \in {"reading", "broken"}
           \/ pc = "reading" /\ pc' = "broken"
    <3>1. CASE Restart  BY <3>1 DEF Restart, budget, place
    <3>2. CASE Refuse  BY <3>2 DEF Refuse, budget, place
    <3>3. CASE Open  BY <3>3 DEF Open, budget
    <3>4. CASE Cut  BY <3>4 DEF Cut, budget, place
    <3>5. CASE ReadShort  BY <3>5 DEF ReadShort, BodyDone, budget, place
    <3> QED  BY <1>8, <3>1, <3>2, <3>3, <3>4, <3>5
  <2>2. Way' = 1 /\ Way = 1 /\ Asked' = from' /\ Asked = from  BY <2>1 DEF Way, Ended, Asked
  <2>3. Phase' < Phase
    <3>1. ASSUME pc = "answered", pc' \in {"reading", "broken"} PROVE Phase' < Phase
      <4>1. Phase = 3  BY <3>1 DEF Phase
      <4>2. CASE pc' = "reading"
        <5>1. Phase' = 2  BY <4>2 DEF Phase
        <5> QED  BY <4>1, <5>1
      <4>3. CASE pc' = "broken"
        <5>1. Phase' = 1  BY <4>3 DEF Phase
        <5> QED  BY <4>1, <5>1
      <4> QED  BY <3>1, <4>2, <4>3
    <3>2. ASSUME pc = "reading", pc' = "broken" PROVE Phase' < Phase
      <4>1. Phase = 2 /\ Phase' = 1  BY <3>2 DEF Phase
      <4> QED  BY <4>1
    <3> QED  BY <2>1, <3>1, <3>2
  <2> QED  BY <1>2, <1>3, <2>1, <2>2, <2>3 DEF FirstLower
<1>9. CASE \E n \in 1..Size : Receive(n)
  <2>1. /\ UNCHANGED <<pc, offset, from, attempts, resumes, high>>
        /\ written' > written /\ pc = "reading"
    BY <1>4, <1>9 DEF Receive, budget
  <2>2. /\ Way' = 1 /\ Way = 1 /\ Asked' = from' /\ Asked = from
        /\ Phase' = 2 /\ Phase = 2
    BY <2>1 DEF Way, Ended, Asked, Phase
  <2>3. Size - written' < Size - written  BY <1>4, <2>1, LeftOf
  <2> QED  BY <1>2, <1>3, <2>1, <2>2, <2>3 DEF FirstLower
<1>10. CASE Continue
  <2>1. /\ pc = "reading" /\ pc' = "try" /\ offset' > from /\ UNCHANGED resumes
        /\ IF offset' > high THEN high' > high ELSE UNCHANGED <<high, attempts>>
    BY <1>10 DEF Continue, BodyDone
  <2>2. Way' = 1 /\ Way = 1 /\ Asked' = offset' /\ Asked = from  BY <2>1 DEF Way, Ended, Asked
  <2>3. CASE offset' > high
    <3>1. high' > high  BY <2>1, <2>3
    <3>2. Size - high' < Size - high  BY <1>4, <3>1, LeftOf
    <3> QED  BY <1>2, <1>3, <2>1, <2>2, <3>2 DEF FirstLower
  <2>4. CASE ~(offset' > high)
    <3>1. high' = high /\ attempts' = attempts  BY <2>1, <2>4
    <3>2. Size - Asked' < Size - Asked  BY <1>4, <2>1, <2>2, LeftOf
    <3> QED  BY <1>2, <1>3, <2>1, <2>2, <3>1, <3>2 DEF FirstLower
  <2> QED  BY <2>3, <2>4
<1>11. CASE Retry
  <2>1. /\ pc = "broken" /\ pc' = "try" /\ UNCHANGED high
        /\ IF Advanced THEN resumes' = resumes + 1 ELSE UNCHANGED resumes /\ attempts' = attempts + 1
    BY <1>11 DEF Retry
  <2>2. Way' = Way  BY <2>1 DEF Way, Ended
  <2>3. CASE Advanced
    <3>1. MaxResumes - resumes' < MaxResumes - resumes  BY <1>4, <2>1, <2>3
    <3> QED  BY <1>2, <1>3, <2>2, <3>1 DEF FirstLower
  <2>4. CASE ~Advanced
    <3>1. MaxAttempts - attempts' < MaxAttempts - attempts  BY <1>4, <2>1, <2>4
    <3> QED  BY <1>2, <1>3, <2>1, <2>2, <2>4, <3>1 DEF FirstLower
  <2> QED  BY <2>3, <2>4
<1> QED  BY <1>5, <1>6, <1>7, <1>8, <1>9, <1>10, <1>11 DEF Step

\* download() cannot go round for ever: neither retries whose attempts progress
\* gives back, nor answers that send a part of what was asked (MAX_RESUMES,
\* high_water and the comparison with resume_start are what bounds them).  Each
\* step of a call lowers its budget, and no budget can be lowered for ever.
THEOREM CallsAreFinite ==
  /\ IsWellFoundedOn(Lower(7), [1..7 -> Nat])
  /\ Spec => []Budgeted
  /\ Spec => [][Step => <<Budget', Budget>> \in Lower(7)]_vars
<1>1. FInv => Budgeted  BY BudgetTyped
<1>2. FInv /\ FInv' /\ Budgeted /\ Budgeted' => (Step => <<Budget', Budget>> \in Lower(7))
  BY StepUses
<1>3. Spec => []Budgeted  BY <1>1, Invariance, PTL
<1>4. Spec => [][Step => <<Budget', Budget>> \in Lower(7)]_vars
  BY <1>2, <1>3, Invariance, PTL
<1> QED  BY <1>3, <1>4, LowerIsWellFounded

-----------------------------------------------------------------------------
(* The file in parts: it is whole, or known not to be; and while parts     *)
(* write to it, nobody else does.                                          *)


\* The parts of the file have been handed out.
Started == stage \in {"parts", "draining", "leaving", "drop"}

\* What a part has written lies where it belongs.
InPlaceSoFar(p) == \A k \in 1..Size : First(p) < k /\ k <= Place(p) => save[k] = k - 1

PartOK(p) ==
  /\ Place(p) <= Last(p) + 1
  /\ part[p].at = "reading" => /\ part[p].next = Place(p)
                               /\ part[p].last <= part[p].end /\ part[p].end <= Last(p)
  /\ part[p].at = "done" => Place(p) = Last(p) + 1
  /\ part[p].at = "stopped" => cancelled \/ abort

\* Nothing a stream knows is known while the parts are at work.
Unstreamed ==
  /\ item = Whole /\ tmp = <<>> /\ bared \in BOOLEAN /\ reply \in Reply
  /\ offset = 0 /\ from = 0 /\ secured = 0 /\ written = 0
  /\ attempts = 1 /\ resumes = 0 /\ high = 0 /\ limit = 0 /\ known = 0
  /\ cancelled \in BOOLEAN /\ calls \in 0..MaxCalls

InParts ==
  /\ Unstreamed
  /\ stage \in {"control", "drop"} => save = Missing
  /\ stage \in {"parts", "draining", "leaving"} => save \in [1..Size -> Byte] /\ \A p \in DOMAIN Parts : InPlaceSoFar(p)
  /\ stage = "drop" => Going = {}

RInv ==
  /\ stage \in {"none", "control", "parts", "draining", "leaving", "drop"}
  /\ pc = "ranged" <=> stage \notin {"none", "leaving"}
  /\ stage = "leaving" => pc = "stopped" /\ cancelled
  /\ IF Started THEN part \in [DOMAIN Parts -> Part] /\ \A p \in DOMAIN Parts : PartOK(p)
                ELSE part = <<>>
  /\ abort \in BOOLEAN /\ (abort <=> stage \in {"draining", "leaving", "drop"})
  /\ IF stage # "none" THEN InParts ELSE FInv

-----------------------------------------------------------------------------
(* The plan.                                                               *)

LEMMA CeilFacts ==
  ASSUME NEW a \in Nat \ {0}, NEW b \in Nat \ {0}
  PROVE  /\ Ceil(a, b) \in Nat /\ Ceil(a, b) >= 1
         /\ (Ceil(a, b) - 1) * b < a /\ a <= Ceil(a, b) * b
<1> DEFINE q == (a + b - 1) \div b
<1>1. q \in Int /\ b * q <= a + b - 1 /\ a + b - 1 < b * q + b
  OBVIOUS
<1>2. q >= 1
  OBVIOUS
<1>3. (q - 1) * b = b * q - b /\ q * b = b * q
  BY <1>1
<1> HIDE DEF q
<1>4. Ceil(a, b) = q
  BY DEF Ceil, q
<1> QED  BY <1>1, <1>2, <1>3, <1>4

LEMMA Evenly ==
  \E e \in Nat \ {0} : Parts = [i \in 1..Ceil(Size, e) |-> <<(i - 1) * e, Least(Size, i * e) - 1>>]
<1> DEFINE t == Most(MinPart, Ceil(Size, Workers))
           n == Most(1, Least(Workers, Ceil(Size, t)))
           e == Ceil(Size, n)
<1>1. Size \in Nat \ {0} /\ Workers \in Nat \ {0} /\ MinPart \in Nat \ {0}
  BY Constants, RangedAssumption
<1>2. Ceil(Size, Workers) \in Nat /\ Ceil(Size, Workers) >= 1
  BY <1>1, CeilFacts
<1>3. t \in Nat \ {0}
  BY <1>1, <1>2 DEF Most
<1> HIDE DEF t
<1>4. Ceil(Size, t) \in Nat /\ Ceil(Size, t) >= 1
  BY <1>1, <1>3, CeilFacts
<1>5. n \in Nat \ {0}
  BY <1>1, <1>4 DEF Most, Least
<1> HIDE DEF n
<1>6. e \in Nat \ {0}
  BY <1>1, <1>5, CeilFacts
<1>7. Parts = [i \in 1..Ceil(Size, e) |-> <<(i - 1) * e, Least(Size, i * e) - 1>>]
  BY DEF Parts, split_ranges, t, n, e
<1> QED  BY <1>6, <1>7

LEMMA Times ==
  ASSUME NEW a \in Int, NEW b \in Int, NEW e \in Nat, a <= b
  PROVE  a * e <= b * e /\ a * e \in Int /\ b * e \in Int
<1>1. (b - a) * e >= 0
  OBVIOUS
<1>2. (b - a) * e = b * e - a * e
  OBVIOUS
<1> QED  BY <1>1, <1>2

\* Every range is within the file, and none is empty.
LEMMA RangesAreWithin ==
  ASSUME NEW p \in DOMAIN Parts
  PROVE  /\ First(p) \in Nat /\ Last(p) \in Nat /\ First(p) <= Last(p) /\ Last(p) <= Size - 1
         /\ p \in Nat /\ p >= 1
<1>1. PICK e \in Nat \ {0} : Parts = [i \in 1..Ceil(Size, e) |-> <<(i - 1) * e, Least(Size, i * e) - 1>>]
  BY Evenly
<1>2. Size \in Nat \ {0} /\ Ceil(Size, e) \in Nat /\ (Ceil(Size, e) - 1) * e < Size
  <2>1. Size \in Nat \ {0}
    BY Constants
  <2> QED  BY <2>1, CeilFacts
<1>3. p \in 1..Ceil(Size, e) /\ p \in Nat /\ p >= 1
  BY <1>1, <1>2
<1>4. First(p) = (p - 1) * e /\ Last(p) = Least(Size, p * e) - 1
  BY <1>1, <1>3 DEF First, Last
<1>5. (p - 1) * e <= (Ceil(Size, e) - 1) * e /\ (p - 1) * e \in Int
  BY <1>2, <1>3, Times
<1>6. 0 * e <= (p - 1) * e
  BY <1>3, Times
<1>7. p * e = (p - 1) * e + e
  BY <1>3
<1>8. (Ceil(Size, e) - 1) * e \in Int /\ p * e \in Int
  BY <1>2, <1>3
<1> QED  BY <1>2, <1>3, <1>4, <1>5, <1>6, <1>7, <1>8 DEF Least

\* No two ranges meet.
LEMMA RangesAreApart ==
  ASSUME NEW p \in DOMAIN Parts, NEW q \in DOMAIN Parts, p < q
  PROVE  Last(p) < First(q)
<1>1. PICK e \in Nat \ {0} : Parts = [i \in 1..Ceil(Size, e) |-> <<(i - 1) * e, Least(Size, i * e) - 1>>]
  BY Evenly
<1>2. p \in Nat /\ q \in Nat /\ p <= q - 1
  BY RangesAreWithin
<1>3. Last(p) = Least(Size, p * e) - 1 /\ First(q) = (q - 1) * e
  BY <1>1 DEF First, Last
<1>4. p * e <= (q - 1) * e /\ p * e \in Int /\ (q - 1) * e \in Int
  BY <1>2, Times
<1>5. Size \in Nat
  BY Constants
<1> QED  BY <1>3, <1>4, <1>5 DEF Least

\* Every byte is in a range.
LEMMA RangesCover ==
  ASSUME NEW k \in 0..Size - 1
  PROVE  \E p \in DOMAIN Parts : First(p) <= k /\ k <= Last(p)
<1>1. PICK e \in Nat \ {0} : Parts = [i \in 1..Ceil(Size, e) |-> <<(i - 1) * e, Least(Size, i * e) - 1>>]
  BY Evenly
<1>2. Size \in Nat \ {0} /\ Ceil(Size, e) \in Nat /\ Size <= Ceil(Size, e) * e
  <2>1. Size \in Nat \ {0}
    BY Constants
  <2> QED  BY <2>1, CeilFacts
<1> DEFINE p == Ceil(k + 1, e)
<1>3. p \in Nat /\ p >= 1 /\ (p - 1) * e < k + 1 /\ k + 1 <= p * e
  BY CeilFacts
<1> HIDE DEF p
<1>4. p <= Ceil(Size, e)
  <2>1. SUFFICES ASSUME Ceil(Size, e) <= p - 1 PROVE FALSE
    BY <1>2, <1>3
  <2>2. Ceil(Size, e) * e <= (p - 1) * e /\ (p - 1) * e \in Int /\ Ceil(Size, e) * e \in Int
    BY <1>2, <1>3, <2>1, Times
  <2> QED  BY <1>2, <1>3, <2>2
<1>5. p \in DOMAIN Parts /\ First(p) = (p - 1) * e /\ Last(p) = Least(Size, p * e) - 1
  BY <1>1, <1>2, <1>3, <1>4 DEF First, Last
<1>6. (p - 1) * e \in Int /\ p * e \in Int
  BY <1>3
<1> QED  BY <1>2, <1>3, <1>5, <1>6 DEF Least

-----------------------------------------------------------------------------
(* A step of a part.                                                       *)

\* What PartOK asks of part p, were it r.
Fine(p, r) ==
  /\ First(p) + r.got <= Last(p) + 1
  /\ r.at = "reading" => /\ r.next = First(p) + r.got
                         /\ r.last <= r.end /\ r.end <= Last(p)
  /\ r.at = "done" => First(p) + r.got = Last(p) + 1
  /\ r.at = "stopped" => cancelled \/ abort

\* Parts are handed out, and p is one of them that is not over.
AtWork(p) ==
  /\ RInv /\ Started /\ p \in DOMAIN Parts /\ part \in [DOMAIN Parts -> Part]
  /\ part[p].at \notin Over /\ stage \in {"parts", "draining", "leaving"}

LEMMA PartsAtWork ==
  ASSUME RInv, NEW p \in DOMAIN part, part[p].at \notin Over
  PROVE  AtWork(p)
<1>1. Started
  <2>1. SUFFICES ASSUME ~Started PROVE FALSE
    OBVIOUS
  <2>2. part = <<>>
    BY <2>1 DEF RInv
  <2> QED  BY <2>2
<1>2. part \in [DOMAIN Parts -> Part] /\ DOMAIN part = DOMAIN Parts
  BY <1>1 DEF RInv
<1>3. stage # "drop"
  BY <1>1 DEF RInv, Started, InParts, Going
<1> QED  BY <1>1, <1>2, <1>3 DEF AtWork, Started

LEMMA PartFacts ==
  ASSUME NEW p, AtWork(p)
  PROVE  /\ part[p] \in Part /\ Fine(p, part[p])
         /\ part[p].got \in Nat /\ part[p].secured \in Nat /\ part[p].attempts \in 1..MaxAttempts
         /\ part[p].resumes \in 0..MaxResumes /\ part[p].limit \in Nat
         /\ part[p].next \in 0..Size /\ part[p].last \in 0..Size /\ part[p].end \in 0..Size
         /\ First(p) \in Nat /\ Last(p) \in Nat /\ First(p) <= Last(p) /\ Last(p) <= Size - 1
         /\ Place(p) = First(p) + part[p].got /\ Size \in Nat /\ Size >= 1
<1>1. part[p] \in Part /\ PartOK(p)
  BY DEF AtWork, RInv
<1>2. First(p) \in Nat /\ Last(p) \in Nat /\ First(p) <= Last(p) /\ Last(p) <= Size - 1
  BY RangesAreWithin DEF AtWork
<1>3. Size \in Nat /\ Size >= 1
  BY Constants
<1>4. /\ part[p].got \in 0..Size /\ part[p].secured \in 0..Size /\ part[p].attempts \in 1..MaxAttempts
      /\ part[p].resumes \in 0..MaxResumes /\ part[p].limit \in Nat
      /\ part[p].next \in 0..Size /\ part[p].last \in 0..Size /\ part[p].end \in 0..Size
  BY <1>1 DEF Part
<1>5. Fine(p, part[p])
  BY <1>1 DEF Fine, PartOK, Place
<1> QED  BY <1>1, <1>2, <1>3, <1>4, <1>5 DEF Place

\* A part's step that writes nothing.
LEMMA PartMoves ==
  ASSUME NEW p, AtWork(p), NEW r \in Part, part' = [part EXCEPT ![p] = r], Alone,
         r.got = part[p].got, Fine(p, r)
  PROVE  RInv'
<1>1. RInv /\ Started /\ part \in [DOMAIN Parts -> Part] /\ p \in DOMAIN Parts
  BY DEF AtWork
<1>2. part' \in [DOMAIN Parts -> Part] /\ part'[p] = r /\ \A q \in DOMAIN Parts : q # p => part'[q] = part[q]
  BY <1>1
<1>3. UNCHANGED <<item, save, tmp, bared, pc, offset, from, secured, written, attempts, resumes, high, limit,
                  known, reply, cancelled, calls, stage, abort>>
  BY DEF Alone, vars, disk, place, budget, learned
<1>4. \A q \in DOMAIN Parts : part'[q].got = part[q].got
  BY <1>2
<1>5. \A q \in DOMAIN Parts : PartOK(q)'
  <2>1. SUFFICES ASSUME NEW q \in DOMAIN Parts PROVE PartOK(q)'
    OBVIOUS
  <2>2. CASE q = p
    BY <2>2, <1>2, <1>3 DEF Fine, PartOK, Place, First, Last
  <2>3. CASE q # p
    BY <2>3, <1>1, <1>2, <1>3 DEF RInv, PartOK, Place, First, Last
  <2> QED  BY <2>2, <2>3
<1>6. InParts'
  <2>1. InParts /\ stage \in {"parts", "draining", "leaving"}
    BY DEF AtWork, RInv
  <2>2. Unstreamed'
    BY <2>1, <1>3 DEF InParts, Unstreamed
  <2>3. \A q \in DOMAIN Parts : InPlaceSoFar(q)'
    BY <2>1, <1>3, <1>4 DEF InParts, InPlaceSoFar, Place, First
  <2> QED  BY <2>1, <2>2, <2>3, <1>3 DEF InParts
<1>7. Started' /\ stage # "none" /\ stage' # "none"
  BY <1>1, <1>3 DEF Started, AtWork
<1> QED  BY <1>1, <1>2, <1>3, <1>5, <1>6, <1>7 DEF RInv

LEMMA TurnKeeps ==
  ASSUME NEW p, AtWork(p), NEW to \in {"broken", "done", "stopped", "failed"}, Turn(p, to), Alone,
         to = "done" => Place(p) = Last(p) + 1, to = "stopped" => Told
  PROVE  RInv'
<1> DEFINE s == IF to = "broken" THEN part[p].secured ELSE 0
           r == [part[p] EXCEPT !.at = to, !.end = 0, !.next = 0, !.last = 0, !.secured = s]
<1>0. s \in 0..Size /\ 0 \in 0..Size
  BY PartFacts DEF Part
<1>2. part' = [part EXCEPT ![p] = r]
  <2>1. part' = [part EXCEPT ![p] = [part[p] EXCEPT !.at = to, !.end = 0, !.next = 0, !.last = 0,
                                      !.secured = IF to = "broken" THEN part[p].secured ELSE 0]]
    BY DEF Turn
  <2> QED  BY <2>1
<1> HIDE DEF s
<1>1. r \in Part /\ r.at = to /\ r.got = part[p].got
  <2>1. to \in {"try", "reading", "broken", "done", "stopped", "failed"}
    OBVIOUS
  <2> QED  BY <1>0, <2>1, PartFacts DEF Part
<1> HIDE DEF r
<1>3. Fine(p, r)
  BY <1>1, PartFacts DEF Fine, Told
<1> QED  BY <1>1, <1>2, <1>3, PartMoves

LEMMA PartOpensKeeps ==
  ASSUME NEW p, AtWork(p), PartOpens(p)
  PROVE  RInv'
<1>1. PICK b \in Place(p)..ChunkEnd(p) :
        part' = [part EXCEPT ![p].at = "reading", ![p].secured = part[p].got, ![p].end = ChunkEnd(p),
                             ![p].next = Place(p), ![p].last = b]
  BY DEF PartOpens
<1>2. ChunkEnd(p) \in 0..Size /\ Place(p) \in 0..Size /\ ChunkEnd(p) <= Last(p) /\ b \in 0..Size /\ b <= ChunkEnd(p)
  <2>1. Place(p) \in 0..Size
    BY PartFacts DEF Fine
  <2>2. Place(p) <= ChunkEnd(p)
    <3>1. ChunkEnd(p) \in Int
      BY PartFacts DEF ChunkEnd
    <3> QED  BY <3>1, <2>1
  <2>3. ChunkEnd(p) \in Int /\ ChunkEnd(p) <= Last(p)
    BY PartFacts DEF ChunkEnd
  <2> QED  BY <2>1, <2>2, <2>3, PartFacts
<1> DEFINE r == [part[p] EXCEPT !.at = "reading", !.secured = part[p].got, !.end = ChunkEnd(p),
                                !.next = Place(p), !.last = b]
<1>3. part' = [part EXCEPT ![p] = r]
  BY <1>1, PartFacts DEF AtWork
<1>4. r \in Part /\ r.at = "reading" /\ r.got = part[p].got /\ r.next = Place(p) /\ r.last = b /\ r.end = ChunkEnd(p)
  BY <1>2, PartFacts DEF Part
<1> HIDE DEF r
<1>5. Fine(p, r)
  BY <1>2, <1>4, PartFacts DEF Fine
<1> QED  BY <1>3, <1>4, <1>5, PartMoves DEF PartOpens

LEMMA PartRefusedKeeps ==
  ASSUME NEW p, AtWork(p), PartRefused(p)
  PROVE  RInv'
<1> DEFINE r == [part[p] EXCEPT !.at = "broken", !.secured = part[p].got]
<1>1. part' = [part EXCEPT ![p] = r]
  BY PartFacts DEF PartRefused, AtWork
<1>2. r \in Part /\ r.at = "broken" /\ r.got = part[p].got
  BY PartFacts DEF Part
<1> HIDE DEF r
<1>3. Fine(p, r)
  BY <1>2, PartFacts DEF Fine
<1> QED  BY <1>1, <1>2, <1>3, PartMoves DEF PartRefused

LEMMA NewPartTyped == NewPart \in Part
<1>1. 0 \in 0..Size /\ 1 \in 1..MaxAttempts /\ 0 \in 0..MaxResumes
  BY Constants
<1> QED  BY <1>1 DEF NewPart, Part

\* The next request of a part, with the counters it may start with.
LEMMA AskingKeeps ==
  ASSUME NEW p, AtWork(p), Alone, NEW a \in 1..MaxAttempts, NEW b \in 0..MaxResumes, NEW c \in Nat,
         part' = [part EXCEPT ![p] = [NewPart EXCEPT !.got = part[p].got, !.attempts = a, !.resumes = b, !.limit = c]]
  PROVE  RInv'
<1> DEFINE r == [NewPart EXCEPT !.got = part[p].got, !.attempts = a, !.resumes = b, !.limit = c]
<1>1. part' = [part EXCEPT ![p] = r]
  OBVIOUS
<1>2. r \in Part /\ r.at = "try" /\ r.got = part[p].got
  <2>1. part[p].got \in 0..Size
    BY PartFacts DEF Part
  <2>2. NewPart.at = "try"
    BY DEF NewPart
  <2> QED  BY <2>1, <2>2, NewPartTyped DEF Part
<1> HIDE DEF r
<1>3. Fine(p, r)
  BY <1>2, PartFacts DEF Fine
<1> QED  BY <1>1, <1>2, <1>3, PartMoves

LEMMA PartRequestDoneKeeps ==
  ASSUME NEW p, AtWork(p), PartRequestDone(p)
  PROVE  RInv'
<1>1. CASE part[p].end = Last(p)
  <2>1. Place(p) = Last(p) + 1
    BY <1>1, PartFacts DEF PartRequestDone, Sought, Fine
  <2> QED  BY <1>1, <2>1, TurnKeeps DEF PartRequestDone
<1>2. CASE part[p].end # Last(p)
  <2>1. part' = [part EXCEPT ![p] = [Asking(p) EXCEPT !.attempts = 1]]
    BY <1>2 DEF PartRequestDone
  <2>2. [Asking(p) EXCEPT !.attempts = 1] =
          [NewPart EXCEPT !.got = part[p].got, !.attempts = 1, !.resumes = part[p].resumes, !.limit = part[p].limit]
    BY DEF Asking, NewPart
  <2>3. 1 \in 1..MaxAttempts
    BY Constants
  <2>4. part' = [part EXCEPT ![p] = [NewPart EXCEPT !.got = part[p].got, !.attempts = 1,
                                     !.resumes = part[p].resumes, !.limit = part[p].limit]]
    BY <2>1, <2>2
  <2>5. Alone /\ part[p].resumes \in 0..MaxResumes /\ part[p].limit \in Nat
    BY PartFacts DEF PartRequestDone
  <2> QED  BY <2>3, <2>4, <2>5, AskingKeeps
<1> QED  BY <1>1, <1>2

LEMMA PartRetriesKeeps ==
  ASSUME NEW p, AtWork(p), PartRetries(p)
  PROVE  RInv'
<1>1. 1 \in 1..MaxAttempts /\ MaxResumes \in Nat /\ MinChunk \in Nat /\ Chunk \in Nat /\ MaxAttempts \in Nat
  BY Constants
<1>2. Alone /\ part[p].attempts < MaxAttempts
  BY DEF PartRetries
<1>3. CASE part[p].got - part[p].secured >= MinProgress /\ part[p].resumes < MaxResumes
  <2>1. part' = [part EXCEPT ![p] =
                   [Asking(p) EXCEPT !.attempts = 1, !.resumes = part[p].resumes + 1,
                                     !.limit = HalvedFrom(part[p].limit)]]
    BY <1>3 DEF PartRetries
  <2>2. [Asking(p) EXCEPT !.attempts = 1, !.resumes = part[p].resumes + 1,
                          !.limit = HalvedFrom(part[p].limit)] =
          [NewPart EXCEPT !.got = part[p].got, !.attempts = 1, !.resumes = part[p].resumes + 1,
                          !.limit = HalvedFrom(part[p].limit)]
    BY DEF Asking, NewPart
  <2>3. part[p].resumes + 1 \in 0..MaxResumes
    BY <1>1, <1>3, PartFacts
  <2>4. HalvedFrom(part[p].limit) \in Nat
    BY <1>1, PartFacts DEF HalvedFrom, Most
  <2>5. part' = [part EXCEPT ![p] = [NewPart EXCEPT !.got = part[p].got, !.attempts = 1,
                                     !.resumes = part[p].resumes + 1, !.limit = HalvedFrom(part[p].limit)]]
    BY <2>1, <2>2
  <2> QED  BY <2>3, <2>4, <2>5, <1>1, <1>2, AskingKeeps
<1>4. CASE ~(part[p].got - part[p].secured >= MinProgress /\ part[p].resumes < MaxResumes)
  <2>1. part' = [part EXCEPT ![p] = [Asking(p) EXCEPT !.attempts = part[p].attempts + 1]]
    BY <1>4 DEF PartRetries
  <2>2. [Asking(p) EXCEPT !.attempts = part[p].attempts + 1] =
          [NewPart EXCEPT !.got = part[p].got, !.attempts = part[p].attempts + 1,
                          !.resumes = part[p].resumes, !.limit = part[p].limit]
    BY DEF Asking, NewPart
  <2>3. part[p].attempts + 1 \in 1..MaxAttempts
    BY <1>1, <1>2, PartFacts
  <2>4. part' = [part EXCEPT ![p] = [NewPart EXCEPT !.got = part[p].got, !.attempts = part[p].attempts + 1,
                                     !.resumes = part[p].resumes, !.limit = part[p].limit]]
    BY <2>1, <2>2
  <2>5. part[p].resumes \in 0..MaxResumes /\ part[p].limit \in Nat
    BY PartFacts
  <2> QED  BY <2>3, <2>4, <2>5, <1>2, AskingKeeps
<1> QED  BY <1>3, <1>4

\* A part that writes meets nobody else's bytes.
LEMMA PartReceivesKeeps ==
  ASSUME NEW p, AtWork(p), NEW n \in 1..Size, PartReceives(p, n)
  PROVE  RInv'
<1>1. RInv /\ Started /\ part \in [DOMAIN Parts -> Part] /\ p \in DOMAIN Parts /\ stage \in {"parts", "draining", "leaving"}
  BY DEF AtWork
<1>2. UNCHANGED <<item, tmp, bared, pc, offset, from, secured, written, attempts, resumes, high, limit,
                  known, reply, cancelled, calls, stage, abort>>
  BY DEF PartReceives, stream, place, budget, learned
<1>3. n \in Nat /\ n >= 1 /\ n <= part[p].last - part[p].next + 1 /\ part[p].at = "reading"
  BY PartFacts DEF PartReceives
<1>4. part[p].next = Place(p) /\ part[p].last <= part[p].end /\ part[p].end <= Last(p)
      /\ Place(p) + n <= Last(p) + 1 /\ Place(p) \in Nat
  BY <1>3, PartFacts DEF Fine
<1> DEFINE r == [part[p] EXCEPT !.got = part[p].got + n, !.next = part[p].next + n]
<1>5. part' = [part EXCEPT ![p] = r]
  BY <1>1 DEF PartReceives
<1>6. part[p].got + n \in 0..Size /\ part[p].next + n \in 0..Size
  BY <1>3, <1>4, PartFacts
<1>7. r \in Part /\ r.at = "reading" /\ r.got = part[p].got + n /\ r.next = part[p].next + n
      /\ r.last = part[p].last /\ r.end = part[p].end
  BY <1>3, <1>6, PartFacts DEF Part
<1> HIDE DEF r
<1>8. part' \in [DOMAIN Parts -> Part] /\ part'[p] = r /\ \A q \in DOMAIN Parts : q # p => part'[q] = part[q]
  BY <1>1, <1>5, <1>7
<1>9. \A q \in DOMAIN Parts : PartOK(q)'
  <2>1. SUFFICES ASSUME NEW q \in DOMAIN Parts PROVE PartOK(q)'
    OBVIOUS
  <2>2. CASE q = p
    BY <2>2, <1>2, <1>4, <1>7, <1>8, PartFacts DEF PartOK, Place, First, Last
  <2>3. CASE q # p
    BY <2>3, <1>1, <1>2, <1>8 DEF RInv, PartOK, Place, First, Last
  <2> QED  BY <2>2, <2>3
<1>10. save' = [k \in 1..Size |-> IF k > Place(p) /\ k <= Place(p) + n THEN k - 1 ELSE save[k]]
  <2>1. \A k \in 1..Size : part[p].next + (k - Place(p) - 1) = k - 1
    BY <1>4
  <2> QED  BY <2>1 DEF PartReceives
<1>11. save \in [1..Size -> Byte] /\ \A q \in DOMAIN Parts : InPlaceSoFar(q)
  BY <1>1 DEF RInv, InParts
<1>12. save' \in [1..Size -> Byte]
  <2>1. Size \in Nat
    BY Constants
  <2>2. \A k \in 1..Size : k - 1 \in Byte
    BY <2>1 DEF Byte
  <2> QED  BY <2>2, <1>10, <1>11
<1>13. \A q \in DOMAIN Parts : InPlaceSoFar(q)'
  <2>1. SUFFICES ASSUME NEW q \in DOMAIN Parts, NEW k \in 1..Size, First(q) < k, k <= First(q) + part'[q].got
                 PROVE  save'[k] = k - 1
    BY DEF InPlaceSoFar, Place, First
  <2>2. Size \in Nat /\ k \in Nat
    BY Constants
  <2>3. CASE q = p
    <3>1. k <= Place(p) + n
      BY <2>1, <2>2, <2>3, <1>7, <1>8, PartFacts
    <3>2. k <= Place(p) => save[k] = k - 1
      BY <2>1, <2>3, <1>11 DEF InPlaceSoFar
    <3> QED  BY <3>1, <3>2, <2>2, <1>4, <1>10
  <2>4. CASE q # p
    <3>1. part'[q].got = part[q].got /\ k <= Place(q) /\ save[k] = k - 1
      BY <2>1, <2>4, <1>8, <1>11 DEF InPlaceSoFar, Place
    <3>2. Place(q) <= Last(q) + 1 /\ Place(q) \in Nat
      <4>1. PartOK(q) /\ part[q] \in Part
        BY <1>1 DEF RInv
      <4>2. part[q].got \in 0..Size
        BY <4>1 DEF Part
      <4> QED  BY <4>1, <4>2, <2>2, RangesAreWithin DEF PartOK, Place
    <3>3. /\ First(q) \in Nat /\ Last(q) \in Nat /\ First(p) \in Nat /\ Last(p) \in Nat
          /\ p \in Nat /\ q \in Nat /\ First(p) <= Place(p)
      BY <1>1, RangesAreWithin, PartFacts
    <3>4. ~(k > Place(p) /\ k <= Place(p) + n)
      <4>1. CASE p < q
        <5>1. Last(p) < First(q)
          BY <4>1, <1>1, RangesAreApart
        <5> QED  BY <5>1, <3>3, <2>1, <2>2, <1>3, <1>4
      <4>2. CASE q < p
        <5>1. Last(q) < First(p)
          BY <4>2, <1>1, RangesAreApart
        <5> QED  BY <5>1, <3>1, <3>2, <3>3, <2>2, <1>4
      <4> QED  BY <4>1, <4>2, <3>3, <2>4
    <3> QED  BY <3>1, <3>4, <1>10
  <2> QED  BY <2>3, <2>4
<1>14. InParts'
  <2>1. Unstreamed'
    BY <1>1, <1>2 DEF RInv, InParts, Unstreamed
  <2> QED  BY <2>1, <1>1, <1>2, <1>12, <1>13 DEF InParts
<1>15. Started'
  BY <1>1, <1>2 DEF Started
<1> QED  BY <1>1, <1>2, <1>8, <1>9, <1>14, <1>15 DEF RInv

LEMMA PartStepKeeps ==
  ASSUME RInv, NEW p \in DOMAIN part, PartStep(p)
  PROVE  RInv'
<1>1. part[p].at \notin Over
  BY DEF PartStep, PartStops, PartOpens, PartRefused, PartReceives, PartCut, PartStopsMidBody,
         PartRequestDone, PartGivesUp, PartRetries, Over
<1>2. AtWork(p)
  BY <1>1, PartsAtWork
<1>3. CASE PartStops(p) \/ PartStopsMidBody(p)
  BY <1>2, <1>3, TurnKeeps DEF PartStops, PartStopsMidBody
<1>4. CASE PartOpens(p)
  BY <1>2, <1>4, PartOpensKeeps
<1>5. CASE PartRefused(p)
  BY <1>2, <1>5, PartRefusedKeeps
<1>6. CASE \E n \in 1..Size : PartReceives(p, n)
  BY <1>2, <1>6, PartReceivesKeeps
<1>7. CASE PartCut(p)
  BY <1>2, <1>7, TurnKeeps DEF PartCut
<1>8. CASE PartRequestDone(p)
  BY <1>2, <1>8, PartRequestDoneKeeps
<1>9. CASE PartGivesUp(p)
  <2>1. CASE Told
    BY <2>1, <1>2, <1>9, TurnKeeps DEF PartGivesUp
  <2>2. CASE ~Told
    BY <2>2, <1>2, <1>9, TurnKeeps DEF PartGivesUp
  <2> QED  BY <2>1, <2>2
<1>10. CASE PartRetries(p)
  BY <1>2, <1>10, PartRetriesKeeps
<1> QED  BY <1>3, <1>4, <1>5, <1>6, <1>7, <1>8, <1>9, <1>10 DEF PartStep

-----------------------------------------------------------------------------
(* The steps of dispatch_parts and of requests().                          *)

\* What is left when the parts are over is what a stream may find.
LEMMA BackToStream ==
  ASSUME Unstreamed, item' = item, bared' = bared, cancelled' \in BOOLEAN, UNCHANGED <<stream, calls>>,
         pc' \in {"idle", "done", "stopped", "failed", "try"}, save' \in Seq(Byte) \cup {Missing},
         tmp' \in {<<>>, Missing}, pc' = "try" => save' = Missing /\ tmp' = Missing,
         save' # Missing /\ tmp' = Missing => save' = Run(0, Size)
  PROVE  FInv'
<1>1. UNCHANGED <<offset, from, secured, written, attempts, resumes, high, limit, known, reply>>
  BY DEF stream, place, budget, learned
<1>2. <<>> \in Seq(Byte) /\ <<>> # Missing /\ Len(<<>>) = 0 /\ Run(0, 0) = <<>>
  <2>1. <<>> \in Seq(Byte) /\ Len(<<>>) = 0
    OBVIOUS
  <2>2. <<>> # Missing
    BY <2>1, Constants
  <2>3. Run(0, 0) = <<>>
    BY RunEmpty
  <2> QED  BY <2>1, <2>2, <2>3
<1>3. Size \in Nat /\ MaxResumes \in Nat /\ 1 \in 1..MaxAttempts
  BY Constants
<1>4. TypeOK'
  <2>1. tmp' \in Seq(Byte) \cup {Missing}
    BY <1>2
  <2>2. pc' \in Ended \cup {"try", "answered", "reading", "broken", "clearing"}
    BY DEF Ended
  <2> QED  BY <2>1, <2>2, <1>1, <1>3 DEF TypeOK, Unstreamed
<1>5. NotYetSaved' /\ Answered' /\ Placed'
  BY DEF NotYetSaved, Active, Answered, Placed
<1>6. PartialIsPrefix' /\ Fits'
  BY <1>2, <1>3 DEF PartialIsPrefix, Fits
<1>7. OffsetIsSize' /\ SliceUnknown'
  BY <1>1 DEF OffsetIsSize, SliceUnknown, Unstreamed, Stored
<1>8. SavedIsWhole'
  <2>1. item' = Whole
    BY DEF Unstreamed
  <2> QED  BY <2>1 DEF SavedIsWhole, Wanted
<1> QED  BY <1>4, <1>5, <1>6, <1>7, <1>8 DEF FInv

\* The file in parts is a file.
LEMMA FileInParts ==
  ASSUME NEW f \in [1..Size -> Byte]
  PROVE  f \in Seq(Byte) /\ f # Missing
BY Constants

LEMMA DispatchKeeps ==
  ASSUME RInv, Dispatch
  PROVE  RInv'
<1>1. pc # "ranged" /\ stage = "none" /\ FInv
  BY DEF RInv, Dispatch, Ended
<1>2. pc' = "ranged" /\ stage' = "control" /\ part' = <<>> /\ ~abort /\ abort' = abort
  BY <1>1 DEF RInv, Started, Dispatch
<1>3. Unstreamed'
  <2>1. bared' \in BOOLEAN /\ reply' \in Reply /\ calls' \in 0..MaxCalls
    <3>1. TypeOK /\ MaxCalls \in Nat
      BY <1>1, Constants DEF FInv
    <3>2. calls' = calls + 1 /\ calls < MaxCalls /\ bared' = bared /\ reply' = reply
      BY DEF Dispatch
    <3> QED  BY <3>1, <3>2 DEF TypeOK
  <2>2. item' = Whole /\ tmp' = <<>> /\ cancelled' = FALSE
    BY DEF Dispatch
  <2>3. /\ offset' = 0 /\ from' = 0 /\ secured' = 0 /\ written' = 0
        /\ attempts' = 1 /\ resumes' = 0 /\ high' = 0 /\ limit' = 0 /\ known' = 0
    BY DEF Dispatch, Fresh
  <2> QED  BY <2>1, <2>2, <2>3 DEF Unstreamed
<1>4. InParts'
  BY <1>2, <1>3 DEF InParts, Dispatch
<1> QED  BY <1>2, <1>4 DEF RInv, Started

LEMMA TruncateKeeps ==
  ASSUME RInv, Truncate
  PROVE  RInv'
<1>1. pc = "ranged" /\ stage = "control" /\ InParts /\ ~abort
  BY DEF RInv, Truncate
<1>2. /\ pc' = pc /\ stage' = "parts" /\ abort' = abort /\ save' = Holes
      /\ part' = [p \in DOMAIN Parts |-> NewPart]
      /\ UNCHANGED <<item, bared, tmp, offset, from, secured, written, attempts, resumes, high, limit,
                     known, reply, cancelled, calls>>
  BY DEF Truncate, stream, place, budget, learned
<1>3. Unstreamed'
  BY <1>1, <1>2 DEF InParts, Unstreamed
<1>4. save' \in [1..Size -> Byte]
  BY <1>2, Constants DEF Holes, Byte
<1>5. \A p \in DOMAIN Parts : part'[p] = NewPart /\ NewPart.got = 0 /\ NewPart.at = "try"
  BY <1>2 DEF NewPart
<1>6. part' \in [DOMAIN Parts -> Part]
  BY <1>2, NewPartTyped
<1>7. ASSUME NEW p \in DOMAIN Parts
      PROVE  PartOK(p)' /\ InPlaceSoFar(p)'
  <2>1. First(p) \in Nat /\ Last(p) \in Nat /\ First(p) <= Last(p)
    BY RangesAreWithin
  <2>2. Place(p)' = First(p) /\ part'[p].at = "try" /\ First(p)' = First(p) /\ Last(p)' = Last(p)
    BY <2>1, <1>5 DEF Place, First, Last
  <2>3. PartOK(p)'
    BY <2>1, <2>2 DEF PartOK
  <2>4. \A k \in 1..Size : ~(First(p) < k /\ k <= First(p))
    BY <2>1, Constants
  <2> QED  BY <2>2, <2>3, <2>4 DEF InPlaceSoFar
<1>8. Started' /\ InParts'
  BY <1>2, <1>3, <1>4, <1>7 DEF Started, InParts
<1> QED  BY <1>1, <1>2, <1>6, <1>7, <1>8 DEF RInv

LEMMA LoopFailsKeeps ==
  ASSUME RInv, LoopFails
  PROVE  RInv'
<1>1. pc = "ranged" /\ stage = "parts" /\ InParts /\ Started
  BY DEF RInv, LoopFails, Started
<1>2. /\ stage' = "draining" /\ abort' = TRUE /\ part' = part
      /\ UNCHANGED <<item, save, tmp, bared, pc, offset, from, secured, written, attempts, resumes, high,
                     limit, known, reply, cancelled, calls>>
  BY DEF LoopFails, vars, disk, place, budget, learned
<1>3. \A p \in DOMAIN Parts : PartOK(p)' /\ InPlaceSoFar(p)'
  BY <1>1, <1>2 DEF RInv, InParts, PartOK, InPlaceSoFar, Place, First, Last
<1>4. Unstreamed'
  BY <1>1, <1>2 DEF InParts, Unstreamed
<1>5. InParts' /\ Started'
  BY <1>1, <1>2, <1>3, <1>4 DEF InParts, Started
<1> QED  BY <1>1, <1>2, <1>3, <1>5 DEF RInv

\* When every part is done, so is the file.
LEMMA DoneIsWhole ==
  ASSUME save \in [1..Size -> Byte], \A p \in DOMAIN Parts : InPlaceSoFar(p) /\ Place(p) = Last(p) + 1
  PROVE  save = Run(0, Size)
<1>1. Size \in Nat
  BY Constants
<1>2. ASSUME NEW k \in 1..Size
      PROVE  save[k] = k - 1
  <2>1. k - 1 \in 0..Size - 1 /\ k \in Nat
    BY <1>1
  <2>2. PICK p \in DOMAIN Parts : First(p) <= k - 1 /\ k - 1 <= Last(p)
    BY <2>1, RangesCover
  <2>3. First(p) \in Nat /\ Last(p) \in Nat
    BY RangesAreWithin
  <2>4. First(p) < k /\ k <= Place(p)
    BY <2>1, <2>2, <2>3
  <2> QED  BY <2>4 DEF InPlaceSoFar
<1>3. Run(0, Size) = [k \in 1..Size |-> 0 + k - 1]
  BY DEF Run
<1>4. \A k \in 1..Size : 0 + k - 1 = k - 1
  BY <1>1
<1> QED  BY <1>2, <1>3, <1>4

LEMMA LoopEndsKeeps ==
  ASSUME RInv, LoopEnds
  PROVE  RInv'
<1>1. /\ pc = "ranged" /\ stage = "parts" /\ InParts /\ Started /\ ~abort /\ Unstreamed
      /\ part \in [DOMAIN Parts -> Part] /\ \A p \in DOMAIN Parts : PartOK(p)
  BY DEF RInv, LoopEnds, Started, InParts
<1>2. stage' = "none" /\ part' = <<>> /\ abort' = abort /\ pc' \in {"stopped", "done"}
  BY DEF LoopEnds
<1>3. save \in [1..Size -> Byte] /\ \A p \in DOMAIN Parts : InPlaceSoFar(p)
  BY <1>1 DEF InParts
<1>4. ~cancelled => save = Run(0, Size)
  <2>1. SUFFICES ASSUME ~cancelled PROVE save = Run(0, Size)
    OBVIOUS
  <2>2. ASSUME NEW p \in DOMAIN Parts
        PROVE  Place(p) = Last(p) + 1
    <3>1. part[p].at \in Over /\ part[p].at # "failed"
      BY <1>1 DEF LoopEnds, Going
    <3>2. part[p].at # "stopped"
      BY <2>1, <1>1 DEF PartOK
    <3>3. part[p].at = "done"
      BY <3>1, <3>2 DEF Over
    <3> QED  BY <3>3, <1>1 DEF PartOK
  <2> QED  BY <2>2, <1>3, DoneIsWhole
<1>5. FInv'
  <2>1. tmp = <<>> /\ <<>> # Missing
    <3>1. <<>> \in Seq(Byte)
      OBVIOUS
    <3> QED  BY <3>1, <1>1, Constants DEF Unstreamed
  <2>2. IF cancelled THEN pc' = "stopped" /\ tmp' = tmp ELSE pc' = "done" /\ tmp' = Missing
    BY DEF LoopEnds
  <2>3. item' = item /\ bared' = bared /\ save' = save /\ cancelled' = cancelled /\ UNCHANGED <<stream, calls>>
    BY DEF LoopEnds
  <2>4. save \in Seq(Byte) \cup {Missing}
    BY <1>3, FileInParts
  <2>5. cancelled' \in BOOLEAN
    BY <1>1, <2>3 DEF Unstreamed
  <2> QED  BY <2>1, <2>2, <2>3, <2>4, <2>5, <1>1, <1>2, <1>4, BackToStream
<1> QED  BY <1>1, <1>2, <1>5 DEF RInv, Started

LEMMA DropFileKeeps ==
  ASSUME RInv, DropFile
  PROVE  RInv'
<1>1. pc = "ranged" /\ stage = "draining" /\ InParts /\ Started /\ abort
  BY DEF RInv, DropFile, Started
<1>2. /\ stage' = "drop" /\ abort' = abort /\ part' = part /\ save' = Missing /\ Going = {}
      /\ UNCHANGED <<item, tmp, bared, pc, offset, from, secured, written, attempts, resumes, high,
                     limit, known, reply, cancelled, calls>>
  BY DEF DropFile, stream, place, budget, learned
<1>3. \A p \in DOMAIN Parts : PartOK(p)'
  BY <1>1, <1>2 DEF RInv, PartOK, Place, First, Last
<1>4. Unstreamed' /\ Going' = {}
  BY <1>1, <1>2 DEF InParts, Unstreamed, Going
<1>5. InParts' /\ Started'
  BY <1>1, <1>2, <1>4 DEF InParts, Started
<1> QED  BY <1>1, <1>2, <1>3, <1>5 DEF RInv

LEMMA DropControlKeeps ==
  ASSUME RInv, DropControl
  PROVE  RInv'
<1>1. pc = "ranged" /\ stage = "drop" /\ InParts /\ Unstreamed /\ save = Missing
  BY DEF RInv, DropControl, InParts
<1>2. /\ stage' = "none" /\ abort' = FALSE /\ part' = <<>> /\ tmp' = Missing /\ save' = Missing
      /\ pc' \in {"stopped", "failed", "try"} /\ item' = item /\ bared' = bared /\ cancelled' = cancelled
      /\ UNCHANGED <<stream, calls>>
  BY <1>1 DEF DropControl
<1>3. cancelled' \in BOOLEAN
  BY <1>1, <1>2 DEF Unstreamed
<1>4. FInv'
  BY <1>1, <1>2, <1>3, BackToStream
<1> QED  BY <1>2, <1>4 DEF RInv, Started

LEMMA KeyboardInterruptKeeps ==
  ASSUME RInv, KeyboardInterrupt
  PROVE  RInv'
<1>1. stage \in {"parts", "draining"} /\ InParts /\ Started
  BY DEF RInv, KeyboardInterrupt, Started
<1>2. /\ stage' = "leaving" /\ abort' = TRUE /\ cancelled' = TRUE /\ pc' = "stopped" /\ part' = part
      /\ UNCHANGED <<item, save, tmp, bared, offset, from, secured, written, attempts, resumes, high,
                     limit, known, reply, calls>>
  BY DEF KeyboardInterrupt, disk, stream, place, budget, learned
<1>3. \A p \in DOMAIN Parts : PartOK(p)' /\ InPlaceSoFar(p)'
  BY <1>1, <1>2 DEF RInv, InParts, PartOK, InPlaceSoFar, Place, First, Last
<1>4. Unstreamed'
  BY <1>1, <1>2 DEF InParts, Unstreamed
<1>5. InParts' /\ Started'
  BY <1>1, <1>2, <1>3, <1>4 DEF InParts, Started
<1> QED  BY <1>1, <1>2, <1>3, <1>5 DEF RInv

LEMMA RangedCrashKeeps ==
  ASSUME RInv, RangedCrash
  PROVE  RInv'
<1>1. stage # "none" /\ InParts /\ Unstreamed
  BY DEF RInv, RangedCrash, InParts
<1>2. /\ stage' = "none" /\ abort' = FALSE /\ part' = <<>> /\ pc' = "idle"
      /\ item' = item /\ save' = save /\ tmp' = tmp /\ bared' = bared /\ cancelled' = cancelled
      /\ UNCHANGED <<stream, calls>>
  BY DEF RangedCrash, disk
<1>3. save \in Seq(Byte) \cup {Missing}
  <2>1. save = Missing \/ save \in [1..Size -> Byte]
    BY <1>1 DEF RInv, InParts
  <2> QED  BY <2>1, FileInParts
<1>4. tmp = <<>> /\ <<>> # Missing /\ cancelled' \in BOOLEAN
  <2>1. <<>> \in Seq(Byte)
    OBVIOUS
  <2> QED  BY <2>1, <1>1, <1>2, Constants DEF Unstreamed
<1>5. FInv'
  BY <1>1, <1>2, <1>3, <1>4, BackToStream
<1> QED  BY <1>2, <1>5 DEF RInv, Started

LEMMA RangedCancelKeeps ==
  ASSUME RInv, RangedCancel
  PROVE  RInv'
<1>1. pc = "ranged" /\ InParts /\ cancelled' = TRUE
  BY DEF RInv, RangedCancel
<1>2. UNCHANGED <<item, save, tmp, bared, pc, offset, from, secured, written, attempts, resumes, high, limit,
                  known, reply, calls, stage, part, abort>>
  BY DEF RangedCancel, disk, stream, place, budget, learned, ranged
<1>3. Started => \A p \in DOMAIN Parts : PartOK(p)'
  BY <1>1, <1>2 DEF RInv, PartOK, Place, First, Last
<1>4. Unstreamed' /\ Going' = Going /\ \A p \in DOMAIN Parts : InPlaceSoFar(p) => InPlaceSoFar(p)'
  BY <1>1, <1>2 DEF InParts, Unstreamed, Going, InPlaceSoFar, Place, First
<1>5. InParts'
  BY <1>1, <1>2, <1>4 DEF InParts
<1> QED  BY <1>1, <1>2, <1>3, <1>5 DEF RInv, Started

LEMMA RangedStutters ==
  ASSUME RInv, UNCHANGED allvars
  PROVE  RInv'
<1>1. UNCHANGED <<vars, item, save, tmp, bared, pc, offset, from, secured, written, attempts, resumes, high, limit,
                  known, reply, cancelled, calls, stage, part, abort>>
  BY DEF allvars, vars, ranged, disk, place, budget, learned
<1>2. Started => \A p \in DOMAIN Parts : PartOK(p)'
  BY <1>1 DEF RInv, PartOK, Place, First, Last
<1>3. stage # "none" => InParts'
  BY <1>1 DEF RInv, InParts, Unstreamed, Going, InPlaceSoFar, Place, First
<1>4. stage = "none" => FInv'
  BY <1>1, NextKeeps DEF RInv
<1> QED  BY <1>1, <1>2, <1>3, <1>4 DEF RInv, Started

-----------------------------------------------------------------------------
LEMMA RangedNextKeeps ==
  ASSUME RInv, [RangedNext]_allvars
  PROVE  RInv'
<1>1. CASE Dispatch
  BY <1>1, DispatchKeeps
<1>2. CASE LoopStep
  BY <1>2, TruncateKeeps, LoopFailsKeeps, LoopEndsKeeps, DropFileKeeps, DropControlKeeps DEF LoopStep
<1>3. CASE \E p \in DOMAIN part : PartStep(p)
  BY <1>3, PartStepKeeps
<1>4. CASE KeyboardInterrupt \/ RangedCrash \/ RangedCancel
  BY <1>4, KeyboardInterruptKeeps, RangedCrashKeeps, RangedCancelKeeps
<1>5. CASE stage = "none" /\ Next /\ UNCHANGED ranged
  <2>1. FInv'
    BY <1>5, NextKeeps DEF RInv
  <2>2. pc' # "ranged"
    BY <2>1 DEF FInv, TypeOK, Ended
  <2> QED  BY <2>1, <2>2, <1>5 DEF RInv, Started, ranged
<1>6. CASE UNCHANGED allvars
  BY <1>6, RangedStutters
<1> QED  BY <1>1, <1>2, <1>3, <1>4, <1>5, <1>6 DEF RangedNext

\* The invariant of the two ways to fetch a file: in one stream, what
\* the stream's proof knows of it; in parts, that each part writes within its own
\* range and what it has written is in its place, beside an empty control file.
THEOREM RangedInvariance == RangedSpec => []RInv
<1>1. RangedInit => RInv
  <2>1. RangedInit => FInv /\ pc # "ranged"
    BY FInvInit DEF RangedInit, Init
  <2> QED  BY <2>1 DEF RangedInit, RInv, Started
<1>2. RInv /\ [RangedNext]_allvars => RInv'
  BY RangedNextKeeps
<1> QED  BY <1>1, <1>2, PTL DEF RangedSpec

\* A file without a .!dev beside it is the file that was asked for, though
\* several threads wrote it, gave up, were cancelled or killed on the way, and a
\* stream took over (dispatch_parts and the single URL's branch of requests()).
THEOREM WholeFromParts == RangedSpec => []SavedIsWhole
<1>1. RInv => SavedIsWhole
  <2>1. ASSUME RInv, stage # "none"
        PROVE  SavedIsWhole
    <3>1. tmp = <<>> /\ <<>> \in Seq(Byte)
      BY <2>1 DEF RInv, InParts, Unstreamed
    <3> QED  BY <3>1, Constants DEF SavedIsWhole
  <2>2. ASSUME RInv, stage = "none"
        PROVE  SavedIsWhole
    BY <2>2 DEF RInv, FInv
  <2> QED  BY <2>1, <2>2
<1> QED  BY <1>1, RangedInvariance, PTL

\* A .!dev never holds anything but a prefix: the control file of a ranged
\* download is empty, and is gone before the stream begins one.
THEOREM PrefixBesideParts == RangedSpec => []PartialIsPrefix
<1>1. RInv => PartialIsPrefix
  <2>1. ASSUME RInv, stage # "none"
        PROVE  PartialIsPrefix
    <3>1. tmp = <<>> /\ Len(<<>>) = 0 /\ Run(0, 0) = <<>>
      BY <2>1, RunEmpty DEF RInv, InParts, Unstreamed
    <3> QED  BY <3>1 DEF PartialIsPrefix
  <2>2. ASSUME RInv, stage = "none"
        PROVE  PartialIsPrefix
    BY <2>2 DEF RInv, FInv
  <2> QED  BY <2>1, <2>2
<1> QED  BY <1>1, RangedInvariance, PTL

\* Whoever else writes to the file, or removes it, comes after the last part has
\* returned (the wait for the pool in dispatch_parts).
THEOREM PartsAlone == RangedSpec => []PartsWriteAlone
<1>1. RInv => PartsWriteAlone
  <2>1. SUFFICES ASSUME RInv, NEW p \in Going
                 PROVE  /\ pc = "ranged" \/ (pc = "stopped" /\ cancelled /\ abort)
                        /\ save # Missing
    BY DEF PartsWriteAlone
  <2>2. p \in DOMAIN part /\ part[p].at \notin Over
    BY DEF Going
  <2>3. AtWork(p)
    BY <2>1, <2>2, PartsAtWork
  <2>4. save \in [1..Size -> Byte] /\ (pc = "ranged" \/ (pc = "stopped" /\ cancelled /\ abort))
    BY <2>3 DEF AtWork, RInv, InParts
  <2> QED  BY <2>4, FileInParts
<1> QED  BY <1>1, RangedInvariance, PTL
-----------------------------------------------------------------------------
(* Parts do not go on for ever either, nor does the loop over them.        *)

\* All that was asked for has come.
Complete(p) == IF part[p].at = "reading" /\ part[p].got >= Sought(p) THEN 1 ELSE 0

PartPhase(p) ==
  IF part[p].at = "try" THEN 3 ELSE IF part[p].at = "reading" THEN 2
  ELSE IF part[p].at = "broken" THEN 1 ELSE 0

\* Bytes the part has yet to write come first: what it has written stays written,
\* and only a request that has brought something gives the attempts back.
PartBudget(p) == <<Size - part[p].got, Complete(p), MaxResumes - part[p].resumes,
                   MaxAttempts - part[p].attempts, PartPhase(p)>>

\* How much of dispatch_parts is to come.
Leg == IF stage = "control" THEN 4 ELSE IF stage = "parts" THEN 3
       ELSE IF stage = "draining" THEN 2 ELSE IF stage = "drop" THEN 1 ELSE 0

PartsBudgeted == \A p \in DOMAIN part : PartBudget(p) \in [1..5 -> Nat]

LEMMA PartBudgetTyped == ASSUME RInv PROVE PartsBudgeted
<1>1. SUFFICES ASSUME NEW p \in DOMAIN part PROVE PartBudget(p) \in [1..5 -> Nat]
  BY DEF PartsBudgeted
<1>2. part[p] \in Part
  <2>1. CASE Started
    BY <2>1 DEF RInv
  <2>2. CASE ~Started
    BY <2>2 DEF RInv
  <2> QED  BY <2>1, <2>2
<1>3. Size - part[p].got \in Nat /\ MaxResumes - part[p].resumes \in Nat /\ MaxAttempts - part[p].attempts \in Nat
  BY <1>2, Constants DEF Part
<1>4. Complete(p) \in Nat /\ PartPhase(p) \in Nat
  BY DEF Complete, PartPhase
<1> QED  BY <1>3, <1>4 DEF PartBudget

\* The part has nothing in hand after the step, or has just asked.
LEMMA PartUses ==
  ASSUME NEW p, AtWork(p), NEW r, part'[p] = r, UNCHANGED stage,
         PartBudget(p) \in [1..5 -> Nat], PartBudget(p)' \in [1..5 -> Nat],
         r.got \in 0..Size, r.resumes \in 0..MaxResumes, r.attempts \in 1..MaxAttempts,
         \/ r.got > part[p].got
         \/ r.got = part[p].got /\ Complete(p)' = 0 /\ Complete(p) = 1
         \/ /\ r.got = part[p].got /\ Complete(p)' = Complete(p)
            /\ \/ r.resumes > part[p].resumes
               \/ /\ r.resumes = part[p].resumes
                  /\ \/ r.attempts > part[p].attempts
                     \/ r.attempts = part[p].attempts /\ PartPhase(p)' < PartPhase(p)
  PROVE  <<PartBudget(p)', PartBudget(p)>> \in Lower(5)
<1>1. SUFFICES \E j \in 1..5 : FirstLower(PartBudget(p)', PartBudget(p), j, 5)
  BY Lowers
<1> DEFINE b == PartBudget(p)
           c == PartBudget(p)'
<1>2. /\ b[1] = Size - part[p].got /\ b[2] = Complete(p) /\ b[3] = MaxResumes - part[p].resumes
      /\ b[4] = MaxAttempts - part[p].attempts /\ b[5] = PartPhase(p)
  BY DEF PartBudget
<1>3. /\ c[1] = Size - r.got /\ c[2] = Complete(p)' /\ c[3] = MaxResumes - r.resumes
      /\ c[4] = MaxAttempts - r.attempts /\ c[5] = PartPhase(p)'
  BY DEF PartBudget
<1>4. /\ part[p].got \in 0..Size /\ part[p].resumes \in 0..MaxResumes /\ part[p].attempts \in 1..MaxAttempts
  BY PartFacts DEF Part
<1>5. b \in [1..5 -> Nat] /\ c \in [1..5 -> Nat]
  OBVIOUS
<1> HIDE DEF b, c
<1>6. CASE r.got > part[p].got
  <2>1. c[1] < b[1]
    BY <1>2, <1>3, <1>4, <1>6, Constants, LeftOf
  <2>2. FirstLower(c, b, 1, 5)
    BY <1>5, <2>1 DEF FirstLower
  <2> QED  BY <2>2 DEF b, c
<1>7. CASE r.got = part[p].got /\ Complete(p)' = 0 /\ Complete(p) = 1
  <2>1. c[1] = b[1] /\ c[2] < b[2]
    BY <1>2, <1>3, <1>7
  <2>2. FirstLower(c, b, 2, 5)
    BY <1>5, <2>1 DEF FirstLower
  <2> QED  BY <2>2 DEF b, c
<1>8. ASSUME r.got = part[p].got, Complete(p)' = Complete(p)
      PROVE  c[1] = b[1] /\ c[2] = b[2]
  BY <1>2, <1>3, <1>8
<1>9. CASE r.got = part[p].got /\ Complete(p)' = Complete(p) /\ r.resumes > part[p].resumes
  <2>1. c[3] < b[3]
    BY <1>2, <1>3, <1>4, <1>9, Constants, LeftOf
  <2>2. FirstLower(c, b, 3, 5)
    BY <1>5, <1>8, <1>9, <2>1 DEF FirstLower
  <2> QED  BY <2>2 DEF b, c
<1>10. CASE /\ r.got = part[p].got /\ Complete(p)' = Complete(p) /\ r.resumes = part[p].resumes
            /\ r.attempts > part[p].attempts
  <2>1. c[3] = b[3]
    BY <1>2, <1>3, <1>10
  <2>3. part[p].attempts \in 0..MaxAttempts /\ r.attempts \in 0..MaxAttempts
    <3>1. \A a \in 1..MaxAttempts : a \in 0..MaxAttempts
      BY Constants
    <3> QED  BY <3>1, <1>4
  <2>4. c[4] < b[4]
    BY <1>2, <1>3, <1>10, <2>3, Constants, LeftOf
  <2>2. FirstLower(c, b, 4, 5)
    BY <1>5, <1>8, <1>10, <2>1, <2>4 DEF FirstLower
  <2> QED  BY <2>2 DEF b, c
<1>11. CASE /\ r.got = part[p].got /\ Complete(p)' = Complete(p) /\ r.resumes = part[p].resumes
            /\ r.attempts = part[p].attempts /\ PartPhase(p)' < PartPhase(p)
  <2>1. c[3] = b[3] /\ c[4] = b[4] /\ c[5] < b[5]
    BY <1>2, <1>3, <1>11
  <2>2. FirstLower(c, b, 5, 5)
    BY <1>5, <1>8, <1>11, <2>1 DEF FirstLower
  <2> QED  BY <2>2 DEF b, c
<1> QED  BY <1>6, <1>7, <1>9, <1>10, <1>11

\* A step of one part leaves the others, and the loop, where they are.
LEMMA PartAlone ==
  ASSUME RInv, NEW p \in DOMAIN part, PartStep(p)
  PROVE  /\ AtWork(p) /\ DOMAIN part' = DOMAIN part /\ UNCHANGED stage
         /\ \A q \in DOMAIN part : q # p => part'[q] = part[q]
<1>1. part[p].at \notin Over
  <2>1. part[p].at \in {"try", "reading", "broken"}
    BY DEF PartStep, PartStops, PartOpens, PartRefused, PartReceives, PartCut, PartStopsMidBody,
           PartRequestDone, PartGivesUp, PartRetries
  <2> QED  BY <2>1 DEF Over
<1>2. AtWork(p)
  BY <1>1, PartsAtWork
<1>3. UNCHANGED stage /\ \E r : part' = [part EXCEPT ![p] = r]
  <2>1. CASE PartStops(p) \/ PartCut(p) \/ PartStopsMidBody(p) \/ PartGivesUp(p)
    BY <2>1 DEF PartStops, PartCut, PartStopsMidBody, PartGivesUp, Turn, Alone
  <2>2. CASE PartOpens(p)
    <3>1. PICK b \in Place(p)..ChunkEnd(p) :
            part' = [part EXCEPT ![p].at = "reading", ![p].secured = part[p].got, ![p].end = ChunkEnd(p),
                                 ![p].next = Place(p), ![p].last = b]
      BY <2>2 DEF PartOpens
    <3>2. part' = [part EXCEPT ![p] = [part[p] EXCEPT !.at = "reading", !.secured = part[p].got,
                                         !.end = ChunkEnd(p), !.next = Place(p), !.last = b]]
      BY <3>1
    <3> QED  BY <2>2, <3>2 DEF PartOpens, Alone
  <2>3. CASE PartRefused(p)
    <3>1. part' = [part EXCEPT ![p] = [part[p] EXCEPT !.at = "broken", !.secured = part[p].got]]
      BY <2>3 DEF PartRefused
    <3> QED  BY <2>3, <3>1 DEF PartRefused, Alone
  <2>4. ASSUME NEW n \in 1..Size, PartReceives(p, n)
        PROVE  UNCHANGED stage /\ \E r : part' = [part EXCEPT ![p] = r]
    <3>1. part' = [part EXCEPT ![p] = [part[p] EXCEPT !.got = part[p].got + n, !.next = part[p].next + n]]
      BY <2>4 DEF PartReceives
    <3> QED  BY <2>4, <3>1 DEF PartReceives
  <2>5. CASE PartRequestDone(p)
    BY <2>5 DEF PartRequestDone, Turn, Alone
  <2>6. CASE PartRetries(p)
    BY <2>6 DEF PartRetries, Alone
  <2> QED  BY <2>1, <2>2, <2>3, <2>4, <2>5, <2>6 DEF PartStep
<1>4. DOMAIN part' = DOMAIN part /\ \A q \in DOMAIN part : q # p => part'[q] = part[q]
  BY <1>2, <1>3 DEF AtWork
<1> QED  BY <1>2, <1>3, <1>4

LEMMA PartTurns ==
  ASSUME NEW p, AtWork(p), NEW to \in {"broken", "done", "stopped", "failed"}, Turn(p, to)
  PROVE  /\ part'[p].at = to /\ part'[p].got = part[p].got
         /\ part'[p].attempts = part[p].attempts /\ part'[p].resumes = part[p].resumes
<1>1. part[p] \in Part /\ part \in [DOMAIN Parts -> Part] /\ p \in DOMAIN Parts
  BY PartFacts DEF AtWork
<1>2. part'[p] = [part[p] EXCEPT !.at = to, !.end = 0, !.next = 0, !.last = 0,
                    !.secured = IF to = "broken" THEN part[p].secured ELSE 0]
  BY <1>1 DEF Turn
<1> QED  BY <1>1, <1>2 DEF Part

LEMMA PartAsks ==
  ASSUME NEW p, AtWork(p)
  PROVE  /\ Asking(p).at = "try" /\ Asking(p).got = part[p].got /\ Asking(p) \in Part
         /\ Asking(p).attempts = part[p].attempts /\ Asking(p).resumes = part[p].resumes
BY PartFacts, NewPartTyped DEF Asking, NewPart, Part

\* Every step of a part lowers its budget.
LEMMA PartStepUses ==
  ASSUME RInv, NEW p \in DOMAIN part, PartStep(p),
         PartBudget(p) \in [1..5 -> Nat], PartBudget(p)' \in [1..5 -> Nat], part'[p] \in Part
  PROVE  <<PartBudget(p)', PartBudget(p)>> \in Lower(5)
<1>1. AtWork(p) /\ UNCHANGED stage
  BY PartAlone
<1>2. part \in [DOMAIN Parts -> Part] /\ p \in DOMAIN Parts /\ part[p] \in Part
  BY <1>1, PartFacts DEF AtWork
<1> DEFINE r == part'[p]
<1>3. r.got \in 0..Size /\ r.resumes \in 0..MaxResumes /\ r.attempts \in 1..MaxAttempts
  BY DEF Part
<1>4. part'[p] = r
  OBVIOUS
<1>5. Complete(p) \in {0, 1} /\ Complete(p)' \in {0, 1}
  BY DEF Complete
<1>6. (part[p].at # "reading" => Complete(p) = 0) /\ (r.at # "reading" => Complete(p)' = 0)
  BY DEF Complete
<1> HIDE DEF r
\* The part lets go of what it had in hand.
<1>7. ASSUME r.got = part[p].got, r.attempts = part[p].attempts, r.resumes = part[p].resumes,
             r.at # "reading", PartPhase(p)' < PartPhase(p)
      PROVE  <<PartBudget(p)', PartBudget(p)>> \in Lower(5)
  <2>1. Complete(p)' = 0
    BY <1>6, <1>7
  <2>2. CASE Complete(p) = 1
    BY <1>1, <1>3, <1>4, <1>7, <2>1, <2>2, PartUses
  <2>3. CASE Complete(p) = 0
    BY <1>1, <1>3, <1>4, <1>7, <2>1, <2>3, PartUses
  <2> QED  BY <1>5, <2>2, <2>3
<1>8. ASSUME NEW to \in {"broken", "done", "stopped", "failed"}, Turn(p, to),
             \/ part[p].at \in {"try", "reading"}
             \/ part[p].at = "broken" /\ to # "broken"
      PROVE  <<PartBudget(p)', PartBudget(p)>> \in Lower(5)
  <2>1. r.at = to /\ r.got = part[p].got /\ r.attempts = part[p].attempts /\ r.resumes = part[p].resumes
    BY <1>1, <1>8, PartTurns DEF r
  <2>2. PartPhase(p)' < PartPhase(p)
    <3>1. PartPhase(p)' = IF to = "broken" THEN 1 ELSE 0
      BY <2>1 DEF PartPhase, r
    <3>2. PartPhase(p) = IF part[p].at = "try" THEN 3 ELSE IF part[p].at = "reading" THEN 2 ELSE 1
      BY <1>8 DEF PartPhase
    <3> QED  BY <1>8, <3>1, <3>2
  <2>3. r.at # "reading"
    BY <2>1
  <2> QED  BY <1>7, <2>1, <2>2, <2>3
<1>9. CASE PartStops(p) \/ PartCut(p) \/ PartStopsMidBody(p) \/ PartGivesUp(p)
  <2>1. CASE PartStops(p)  BY <2>1, <1>8 DEF PartStops
  <2>2. CASE PartCut(p)  BY <2>2, <1>8 DEF PartCut
  <2>3. CASE PartStopsMidBody(p)  BY <2>3, <1>8 DEF PartStopsMidBody
  <2>4. CASE PartGivesUp(p)  BY <2>4, <1>8 DEF PartGivesUp
  <2> QED  BY <1>9, <2>1, <2>2, <2>3, <2>4
<1>10. CASE PartOpens(p)
  <2>1. PICK b \in Place(p)..ChunkEnd(p) :
          part' = [part EXCEPT ![p].at = "reading", ![p].secured = part[p].got, ![p].end = ChunkEnd(p),
                               ![p].next = Place(p), ![p].last = b]
    BY <1>10 DEF PartOpens
  <2>2. /\ r.at = "reading" /\ r.got = part[p].got /\ r.end = ChunkEnd(p)
        /\ r.attempts = part[p].attempts /\ r.resumes = part[p].resumes
    BY <1>2, <2>1 DEF r, Part
  <2>3. part[p].at = "try"
    BY <1>10 DEF PartOpens
  <2>4. Complete(p)' = 0 /\ Complete(p) = 0
    <3>1. Place(p) <= ChunkEnd(p)
      <4>1. ChunkEnd(p) \in Int /\ Place(p) \in Int
        BY <1>1, PartFacts DEF ChunkEnd
      <4> QED  BY <4>1
    <3>2. Sought(p)' = ChunkEnd(p) - First(p) + 1
      BY <2>2 DEF Sought, First, r
    <3>3. Place(p) = First(p) + part[p].got /\ First(p) \in Nat /\ part[p].got \in Nat
      BY <1>1, PartFacts
    <3>4. ChunkEnd(p) \in Int
      BY <1>1, PartFacts DEF ChunkEnd
    <3>5. ~(r.got >= Sought(p)')
      BY <2>2, <3>1, <3>2, <3>3, <3>4
    <3> QED  BY <1>6, <2>3, <3>5 DEF Complete, r
  <2>5. PartPhase(p)' = 2 /\ PartPhase(p) = 3
    BY <2>2, <2>3 DEF PartPhase, r
  <2>6. PartPhase(p)' < PartPhase(p) /\ Complete(p)' = Complete(p)
    BY <2>4, <2>5
  <2> QED  BY <1>1, <1>3, <1>4, <2>2, <2>6, PartUses
<1>11. CASE PartRefused(p)
  <2>1. /\ r.at = "broken" /\ r.got = part[p].got
        /\ r.attempts = part[p].attempts /\ r.resumes = part[p].resumes /\ part[p].at = "try"
    BY <1>2, <1>11 DEF PartRefused, r, Part
  <2>2. PartPhase(p)' = 1 /\ PartPhase(p) = 3
    BY <2>1 DEF PartPhase, r
  <2> QED  BY <1>7, <2>1, <2>2
<1>12. ASSUME NEW n \in 1..Size, PartReceives(p, n)
       PROVE  <<PartBudget(p)', PartBudget(p)>> \in Lower(5)
  <2>1. r.got = part[p].got + n
    BY <1>2, <1>12 DEF PartReceives, r, Part
  <2>2. r.got > part[p].got
    BY <1>1, <1>12, <2>1, PartFacts
  <2> QED  BY <1>1, <1>3, <1>4, <2>2, PartUses
<1>13. CASE PartRequestDone(p)
  <2>1. Complete(p) = 1
    BY <1>13 DEF PartRequestDone, Complete
  <2>2. r.got = part[p].got /\ r.at # "reading"
    <3>1. CASE part[p].end = Last(p)
      BY <1>1, <1>13, <3>1, PartTurns DEF PartRequestDone, r
    <3>2. CASE part[p].end # Last(p)
      <4>1. r = [Asking(p) EXCEPT !.attempts = 1]
        BY <1>2, <1>13, <3>2 DEF PartRequestDone, r
      <4> QED  BY <1>1, <4>1, PartAsks DEF Part
    <3> QED  BY <3>1, <3>2
  <2>3. Complete(p)' = 0
    BY <1>6, <2>2
  <2> QED  BY <1>1, <1>3, <1>4, <2>1, <2>2, <2>3, PartUses
<1>14. CASE PartRetries(p)
  <2>1. /\ r.got = part[p].got /\ r.at = "try"
        /\ \/ r.resumes = part[p].resumes + 1
           \/ r.resumes = part[p].resumes /\ r.attempts = part[p].attempts + 1
    <3>1. r = IF part[p].got - part[p].secured >= MinProgress /\ part[p].resumes < MaxResumes
              THEN [Asking(p) EXCEPT !.attempts = 1, !.resumes = part[p].resumes + 1,
                                     !.limit = HalvedFrom(part[p].limit)]
              ELSE [Asking(p) EXCEPT !.attempts = part[p].attempts + 1]
      BY <1>2, <1>14 DEF PartRetries, r
    <3> QED  BY <1>1, <3>1, PartAsks DEF Part
  <2>2. Complete(p)' = Complete(p)
    BY <1>6, <1>14, <2>1 DEF PartRetries
  <2>3. r.resumes > part[p].resumes \/ (r.resumes = part[p].resumes /\ r.attempts > part[p].attempts)
    BY <1>1, <2>1, PartFacts
  <2> QED  BY <1>1, <1>3, <1>4, <2>1, <2>2, <2>3, PartUses
<1> QED  BY <1>9, <1>10, <1>11, <1>12, <1>13, <1>14 DEF PartStep

LEMMA LoopStepUses ==
  ASSUME RInv, LoopStep
  PROVE  Leg \in Nat /\ Leg' \in Nat /\ Leg' < Leg
<1>1. CASE Truncate  BY <1>1 DEF Truncate, Leg
<1>2. CASE LoopFails  BY <1>2 DEF LoopFails, Leg
<1>3. CASE LoopEnds  BY <1>3 DEF LoopEnds, Leg
<1>4. CASE DropFile  BY <1>4 DEF DropFile, Leg
<1>5. CASE DropControl  BY <1>5 DEF DropControl, Leg
<1> QED  BY <1>1, <1>2, <1>3, <1>4, <1>5 DEF LoopStep

\* While the file is in parts, every step of a thread lowers that thread's budget
\* and touches no other's, and every step of the loop brings it nearer to its
\* end; a part goes round only as long as its requests bring bytes or cost it an
\* attempt or a resume (dispatch_parts, download() in part mode).
PartSteps ==
  \A p \in DOMAIN part :
    PartStep(p) => /\ <<PartBudget(p)', PartBudget(p)>> \in Lower(5)
                   /\ \A q \in DOMAIN part : q # p => part'[q] = part[q]
                   /\ UNCHANGED Leg

THEOREM PartsAreFinite ==
  /\ IsWellFoundedOn(Lower(5), [1..5 -> Nat])
  /\ RangedSpec => []PartsBudgeted
  /\ RangedSpec => [][PartSteps]_allvars
  /\ RangedSpec => [][LoopStep => Leg' < Leg]_allvars
<1>1. RInv => PartsBudgeted
  BY PartBudgetTyped
<1>2. RInv /\ RInv' /\ PartsBudgeted /\ PartsBudgeted' => PartSteps
  <2>1. SUFFICES ASSUME RInv, RInv', PartsBudgeted, PartsBudgeted', NEW p \in DOMAIN part, PartStep(p)
                 PROVE  /\ <<PartBudget(p)', PartBudget(p)>> \in Lower(5)
                        /\ \A q \in DOMAIN part : q # p => part'[q] = part[q]
                        /\ UNCHANGED Leg
    BY DEF PartSteps
  <2>2. /\ AtWork(p) /\ DOMAIN part' = DOMAIN part /\ UNCHANGED stage
        /\ \A q \in DOMAIN part : q # p => part'[q] = part[q]
    BY <2>1, PartAlone
  <2>3. PartBudget(p) \in [1..5 -> Nat] /\ PartBudget(p)' \in [1..5 -> Nat]
    BY <2>1, <2>2 DEF PartsBudgeted
  <2>4. part'[p] \in Part
    BY <2>1, <2>2 DEF RInv, AtWork, Started
  <2>5. <<PartBudget(p)', PartBudget(p)>> \in Lower(5)
    BY <2>1, <2>3, <2>4, PartStepUses
  <2> QED  BY <2>2, <2>5 DEF Leg
<1>3. RInv => (LoopStep => Leg' < Leg)
  BY LoopStepUses
<1>4. RangedSpec => []PartsBudgeted
  BY <1>1, RangedInvariance, PTL
<1>5. RangedSpec => [][PartSteps]_allvars
  BY <1>2, <1>4, RangedInvariance, PTL
<1>6. RangedSpec => [][LoopStep => Leg' < Leg]_allvars
  BY <1>3, RangedInvariance, PTL
<1> QED  BY <1>4, <1>5, <1>6, LowerIsWellFounded

\* The stream that download() falls back to is as finite as any other.
THEOREM FallbackIsFinite ==
  RangedSpec => [][stage = "none" /\ Step => <<Budget', Budget>> \in Lower(7)]_allvars
<1>1. RInv /\ stage = "none" => FInv /\ Budgeted
  BY BudgetTyped DEF RInv
<1>2. RInv /\ stage = "none" /\ Step => FInv /\ FInv'
  <2>1. SUFFICES ASSUME RInv, stage = "none", Step PROVE FInv /\ FInv'
    OBVIOUS
  <2>2. FInv  BY <2>1 DEF RInv
  <2> QED  BY <2>1, <2>2, NextKeeps DEF Next
<1>3. FInv => Budgeted
  BY BudgetTyped
<1>4. FInv /\ FInv' /\ Budgeted /\ Budgeted' /\ Step => <<Budget', Budget>> \in Lower(7)
  BY StepUses
<1> QED  BY <1>1, <1>2, <1>3, <1>4, RangedInvariance, PTL
=============================================================================
