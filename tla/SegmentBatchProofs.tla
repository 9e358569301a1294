-------------------------- MODULE SegmentBatchProofs --------------------------
(***************************************************************************)
(* A batch that returns has every segment, whole and reported once, and    *)
(* has no worker left; nothing is submitted twice.  For any number of      *)
(* segments, threads and parts.                                            *)
(***************************************************************************)
EXTENDS SegmentBatch, TLAPS, FiniteSetTheorems

\* The loop runs, and it is over.
Before == {"start", "top", "boost", "feed", "hedge", "wait"}
After  == {"join", "last", "end"}

-----------------------------------------------------------------------------
(* Parts.                                                                  *)

Boosted(i) == fut[Part(i, 1)] # "none"

\* Parts that have not got their bytes, and parts that have not returned.
Unread(i) == {k \in 1..PartsMax : fut[Part(i, k)] \in {"queued", "reading", "broken", "refused"}}
Out(i)    == {k \in 1..PartsMax : fut[Part(i, k)] \in {"queued", "reading"} \cup Returned}

\* The counters count at least the parts that are out, and exactly those as
\* long as no flag may have stopped one.
Counted(i) ==
  /\ gaps[i] >= Cardinality(Unread(i)) /\ partsLeft[i] >= Cardinality(Out(i))
  /\ ~cancelled /\ i \notin partAbort =>
       gaps[i] = Cardinality(Unread(i)) /\ partsLeft[i] = Cardinality(Out(i))
  /\ \A k \in 1..PartsMax : fut[Part(i, k)] = "claimed" => gaps[i] = 0

\* A segment is split once, and what is split has its flag when the loop is over.
SplitOnce(i) ==
  /\ \A k \in 1..PartsMax : fut[Part(i, k)] # "none" => Boosted(i)
  /\ ~Boosted(i) => gaps[i] = 0 /\ partsLeft[i] = 0 /\ i \notin partAbort
  /\ pc \in After /\ Boosted(i) => i \in partAbort
  /\ Boosted(i) /\ i \notin tailSkipped => fut[Primary(i)] = "none" /\ i \notin remaining

-----------------------------------------------------------------------------
(* The race for a segment.                                                 *)

\* What is submitted was not submitted before.
Fresh(i) ==
  /\ i \in remaining => fut[Primary(i)] = "none"
  /\ fut[Hedge(i)] # "none" => i \in hedged

Claimed(i) == \E f \in Futures : fut[f] = "claimed" /\ f.seg = i

\* A segment somebody has claimed is being placed, or was.
Raced(i) ==
  /\ i \in segDone <=> Claimed(i) \/ i \in events \cup reported \cup unplaced
  /\ i \in events \cup reported => file[i] = "whole"

-----------------------------------------------------------------------------
(* The loop.                                                               *)

\* The loop waits for every future that is not over.
Waited ==
  /\ \A f \in pending : fut[f] # "none"
  /\ pc \in Before => \A f \in Futures : /\ fut[f] \in {"queued"} \cup Busy => f \in pending
                                         /\ fut[f] # "dropped"
  /\ pc \in Before => ~batchAbort

\* A segment is done, or waits, or is raced for, or split, or its failed part
\* will put it back.
Covered(i) ==
  \/ i \in segDone
  \/ i \in remaining
  \/ \E f \in Whole : f \in pending /\ f.seg = i /\ fut[f] # "fin"
  \/ i \notin tailSkipped /\ i \notin partAbort /\ Out(i) # {}
  \/ /\ i \notin tailSkipped /\ i \in partAbort
     /\ \E k \in 1..PartsMax : Part(i, k) \in pending /\ fut[Part(i, k)] \in {"failed", "denied"}

Complete ==
  /\ pc \in Before /\ ~cancelled => \A i \in Segs : Covered(i)
  /\ pc \in {"finally", "join", "last"} /\ ~cancelled /\ result = "none" => segDone = Segs

Quiet == \A f \in Futures : fut[f] \notin Busy

\* Nothing is left in the queue of the pool when the loop is over, and nothing
\* runs when the call returns.
Ended ==
  /\ pc \in After => \A f \in Futures : fut[f] # "queued"
  /\ pc = "last" /\ ~cancelled => Quiet
  /\ pc \in Before \cup {"join", "last"} => result = "none"
  /\ result = "ok" => pc = "end" /\ Quiet /\ segDone = Segs /\ events = {}

BInv ==
  /\ TypeOK /\ Waited /\ Complete /\ Ended /\ OneWinner /\ NeverHoley
  /\ \A i \in Segs : Counted(i) /\ SplitOnce(i) /\ Fresh(i) /\ Raced(i)

-----------------------------------------------------------------------------
(* Futures.                                                                *)

FutState == {"none", "queued"} \cup Busy \cup Finished

LEMMA FuturesOf ==
  ASSUME NEW i \in Segs
  PROVE  /\ Primary(i) \in Whole /\ Primary(i) \in Futures /\ Primary(i).seg = i
         /\ Hedge(i) \in Whole /\ Hedge(i) \in Futures /\ Hedge(i).seg = i
         /\ \A k \in 1..PartsMax : Part(i, k) \in Parts /\ Part(i, k) \in Futures /\ Part(i, k).seg = i
BY DEF Primary, Hedge, Part, Whole, Parts, Futures

LEMMA SegOf ==
  ASSUME NEW f \in Futures
  PROVE  f.seg \in Segs
BY DEF Primary, Hedge, Part, Whole, Parts, Futures

LEMMA WholeOf ==
  ASSUME NEW f \in Whole
  PROVE  f = Primary(f.seg) \/ f = Hedge(f.seg)
BY DEF Primary, Hedge, Whole

LEMMA PartOf ==
  ASSUME NEW f \in Parts
  PROVE  \E k \in 1..PartsMax : f = Part(f.seg, k)
BY DEF Part, Parts

\* No future is of two kinds, and no two are of one segment and part.
LEMMA FuturesDiffer ==
  ASSUME NEW i \in Segs, NEW j \in Segs, NEW k \in 1..PartsMax, NEW m \in 1..PartsMax
  PROVE  /\ Primary(i) # Hedge(j) /\ Primary(i) # Part(j, k) /\ Hedge(i) # Part(j, k)
         /\ Primary(i) = Primary(j) => i = j
         /\ Hedge(i) = Hedge(j) => i = j
         /\ Part(i, k) = Part(j, m) => i = j /\ k = m
<1>1. /\ Primary(i).kind = "primary" /\ Primary(i).seg = i
      /\ Primary(j).kind = "primary" /\ Primary(j).seg = j
  BY DEF Primary
<1>2. /\ Hedge(i).kind = "hedge" /\ Hedge(i).seg = i
      /\ Hedge(j).kind = "hedge" /\ Hedge(j).seg = j
  BY DEF Hedge
<1>3. /\ Part(i, k).kind = "part" /\ Part(i, k).seg = i /\ Part(i, k).part = k
      /\ Part(j, k).kind = "part"
      /\ Part(j, m).kind = "part" /\ Part(j, m).seg = j /\ Part(j, m).part = m
  BY DEF Part
<1>4. Primary(i) # Hedge(j) /\ Primary(i) # Part(j, k) /\ Hedge(i) # Part(j, k)
  BY <1>1, <1>2, <1>3
<1> QED  BY <1>1, <1>2, <1>3, <1>4

LEMMA WholeIsNoPart ==
  ASSUME NEW f \in Whole
  PROVE  f \notin Parts
<1>1. f.kind \in {"primary", "hedge"}
  BY DEF Whole, Primary, Hedge
<1>2. f \in Parts => f.kind = "part"
  BY DEF Parts, Part
<1> QED  BY <1>1, <1>2

-----------------------------------------------------------------------------
(* Counting parts.                                                         *)

LEMMA PartsMaxNat == PartsMax \in Nat /\ 1 \in 1..PartsMax /\ MinTarget \in Nat /\ MaxWorkers \in Nat /\ N \in Nat
BY BatchAssumption

LEMMA FiniteParts ==
  ASSUME NEW S, S \subseteq 1..PartsMax
  PROVE  IsFiniteSet(S) /\ Cardinality(S) \in Nat
<1>1. 1 \in Int /\ PartsMax \in Int
  BY PartsMaxNat
<1>2. IsFiniteSet(1..PartsMax)
  BY <1>1, FS_Interval, Zenon
<1>3. IsFiniteSet(S)
  BY <1>2, FS_Subset, Zenon
<1> QED  BY <1>3, FS_CardinalityType

LEMMA OneLess ==
  ASSUME NEW S, S \subseteq 1..PartsMax, NEW k \in S
  PROVE  Cardinality(S) >= 1 /\ Cardinality(S \ {k}) = Cardinality(S) - 1
<1>1. IsFiniteSet(S) /\ Cardinality(S) \in Nat
  BY FiniteParts
<1>2. IsFiniteSet(S \ {k}) /\ Cardinality(S \ {k}) = Cardinality(S) - 1
  BY <1>1, FS_RemoveElement
<1>3. Cardinality(S \ {k}) \in Nat
  BY <1>2, FS_CardinalityType
<1> QED  BY <1>1, <1>2, <1>3

LEMMA FewerIsLess ==
  ASSUME NEW S, NEW R, S \subseteq R, R \subseteq 1..PartsMax
  PROVE  Cardinality(S) <= Cardinality(R)
<1>1. IsFiniteSet(R)
  BY FiniteParts
<1> QED  BY <1>1, FS_Subset

LEMMA NoneIsZero ==
  ASSUME NEW S, S \subseteq 1..PartsMax
  PROVE  Cardinality(S) = 0 <=> S = {}
<1>1. IsFiniteSet(S)
  BY FiniteParts
<1> QED  BY <1>1, FS_EmptySet

LEMMA FirstParts ==
  ASSUME NEW n \in 1..PartsMax
  PROVE  Cardinality(1..n) = n
<1>1. 1 \in Int /\ n \in Int /\ n >= 1
  BY PartsMaxNat
<1>2. Cardinality(1..n) = IF 1 > n THEN 0 ELSE n - 1 + 1
  BY <1>1, FS_Interval, Zenon
<1> QED  BY <1>1, <1>2

LEMMA CountSets ==
  ASSUME NEW i \in Segs
  PROVE  /\ Unread(i) \subseteq Out(i) /\ Out(i) \subseteq 1..PartsMax /\ Unread(i) \subseteq 1..PartsMax
         /\ Unread(i)' \subseteq Out(i)' /\ Out(i)' \subseteq 1..PartsMax /\ Unread(i)' \subseteq 1..PartsMax
BY DEF Unread, Out, Returned

-----------------------------------------------------------------------------
(* What a step leaves as it was.                                           *)

\* Nobody claims a segment or places one.
ClaimsKept ==
  /\ \A f \in Futures : fut'[f] = "claimed" <=> fut[f] = "claimed"
  /\ segDone' = segDone /\ file' = file /\ unplaced' = unplaced
  /\ events' \cup reported' = events \cup reported

LEMMA ClaimsFrame ==
  ASSUME BInv, ClaimsKept
  PROVE  OneWinner' /\ NeverHoley' /\ \A i \in Segs : Raced(i)'
<1> USE DEF ClaimsKept
<1>1. OneWinner /\ NeverHoley /\ \A i \in Segs : Raced(i)
  BY DEF BInv
<1>2. OneWinner'
  BY <1>1 DEF OneWinner
<1>3. NeverHoley'
  BY <1>1 DEF NeverHoley
<1>4. ASSUME NEW i \in Segs
      PROVE  Raced(i)'
  <2>1. Claimed(i)' <=> Claimed(i)
    BY DEF Claimed
  <2>2. Raced(i)
    BY <1>1
  <2> QED  BY <2>1, <2>2 DEF Raced
<1> QED  BY <1>2, <1>3, <1>4

\* Nothing happens to the parts of a segment.
PartsKept(i) ==
  /\ \A k \in 1..PartsMax : fut'[Part(i, k)] = fut[Part(i, k)]
  /\ gaps'[i] = gaps[i] /\ partsLeft'[i] = partsLeft[i]
  /\ i \in partAbort' <=> i \in partAbort

LEMMA SetsKept ==
  ASSUME NEW i \in Segs, PartsKept(i)
  PROVE  Unread(i)' = Unread(i) /\ Out(i)' = Out(i) /\ Boosted(i)' = Boosted(i)
BY PartsMaxNat DEF PartsKept, Unread, Out, Boosted

LEMMA CountedFrame ==
  ASSUME BInv, NEW i \in Segs, PartsKept(i), cancelled => cancelled' \/ pc = "end"
  PROVE  Counted(i)'
<1>1. Counted(i) /\ SplitOnce(i)
  BY DEF BInv
<1>2. Unread(i)' = Unread(i) /\ Out(i)' = Out(i)
  BY SetsKept
<1>3. /\ gaps'[i] >= Cardinality(Unread(i)') /\ partsLeft'[i] >= Cardinality(Out(i)')
      /\ \A k \in 1..PartsMax : fut'[Part(i, k)] = "claimed" => gaps'[i] = 0
  BY <1>1, <1>2 DEF Counted, PartsKept
<1>4. ASSUME ~cancelled', i \notin partAbort'
      PROVE  gaps'[i] = Cardinality(Unread(i)') /\ partsLeft'[i] = Cardinality(Out(i)')
  <2>1. CASE ~cancelled
    BY <2>1, <1>1, <1>2, <1>4 DEF Counted, PartsKept
  <2>2. CASE cancelled
    <3>1. pc = "end"
      BY <2>2, <1>4
    <3>2. ~Boosted(i) /\ gaps[i] = 0 /\ partsLeft[i] = 0
      BY <3>1, <1>1, <1>4 DEF SplitOnce, After, PartsKept
    <3>3. \A k \in 1..PartsMax : fut[Part(i, k)] = "none"
      BY <3>2, <1>1 DEF SplitOnce
    <3>4. Unread(i) = {} /\ Out(i) = {}
      BY <3>3 DEF Unread, Out, Returned
    <3> QED  BY <3>2, <3>4, <1>2, NoneIsZero, CountSets DEF PartsKept
  <2> QED  BY <2>1, <2>2
<1> QED  BY <1>3, <1>4 DEF Counted

\* A segment goes back in line only when its parts are given up.
LineKept(i) ==
  /\ pc' \in After => pc \in After
  /\ tailSkipped \subseteq tailSkipped'
  /\ fut'[Primary(i)] = fut[Primary(i)] \/ fut[Primary(i)] # "none" \/ i \in remaining
  /\ i \in remaining' => i \in remaining \/ i \in tailSkipped'

LEMMA SplitFrame ==
  ASSUME BInv, NEW i \in Segs, PartsKept(i), LineKept(i)
  PROVE  SplitOnce(i)'
<1>1. SplitOnce(i)
  BY DEF BInv
<1>2. Boosted(i)' = Boosted(i)
  BY SetsKept
<1>3. /\ \A k \in 1..PartsMax : fut'[Part(i, k)] # "none" => Boosted(i)'
      /\ ~Boosted(i)' => gaps'[i] = 0 /\ partsLeft'[i] = 0 /\ i \notin partAbort'
  BY <1>1, <1>2 DEF SplitOnce, PartsKept
<1>4. pc' \in After /\ Boosted(i)' => i \in partAbort'
  BY <1>1, <1>2 DEF SplitOnce, PartsKept, LineKept
<1>5. Boosted(i)' /\ i \notin tailSkipped' => fut'[Primary(i)] = "none" /\ i \notin remaining'
  BY <1>1, <1>2 DEF SplitOnce, LineKept
<1> QED  BY <1>3, <1>4, <1>5 DEF SplitOnce

\* What a worker does to its future.
Runs(f, s) ==
  /\ fut[f] \in {"queued"} \cup Busy
  /\ fut' = [fut EXCEPT ![f] = s]
  /\ UNCHANGED <<loopVars, tailVars, cancelled, batchAbort, reported>>

LEMMA RunsSets ==
  ASSUME BInv, NEW f \in Futures, NEW s \in Busy \cup Finished, Runs(f, s)
  PROVE  /\ fut'[f] = s /\ \A g \in Futures : g # f => fut'[g] = fut[g]
         /\ fut' \in [Futures -> FutState]
<1>1. fut \in [Futures -> FutState]
  BY DEF BInv, TypeOK, FutState
<1>2. s \in FutState
  BY DEF FutState
<1> HIDE DEF FutState
<1> QED  BY <1>1, <1>2 DEF Runs

\* The loop's part of the invariant, after a step of a worker.
LEMMA WorkerFrame ==
  ASSUME BInv, NEW f \in Futures, NEW s \in (Busy \cup Finished) \ {"dropped"}, Runs(f, s)
  PROVE  Waited' /\ Ended' /\ \A i \in Segs : Fresh(i)'
<1>1. fut'[f] = s /\ \A g \in Futures : g # f => fut'[g] = fut[g]
  BY RunsSets
<1>2. pc' = pc /\ pending' = pending /\ batchAbort' = batchAbort /\ remaining' = remaining
      /\ result' = result /\ cancelled' = cancelled /\ hedged' = hedged
  BY DEF Runs, loopVars, tailVars
<1>3. fut[f] \in {"queued"} \cup Busy
  BY DEF Runs
<1>4. s \notin {"none", "queued", "dropped"} /\ fut[f] # "none"
  BY <1>3 DEF Busy, Finished, Returned
<1>5. Waited'
  <2>1. Waited /\ pending \subseteq Futures
    BY DEF BInv, TypeOK
  <2>2. \A g \in pending : fut'[g] # "none"
    BY <2>1, <1>1, <1>4 DEF Waited
  <2>3. ASSUME pc \in Before, NEW g \in Futures
        PROVE  /\ fut'[g] \in {"queued"} \cup Busy => g \in pending
               /\ fut'[g] # "dropped"
    BY <2>3, <2>1, <1>1, <1>3, <1>4 DEF Waited
  <2> QED  BY <2>1, <2>2, <2>3, <1>2 DEF Waited
<1>6. Ended'
  <2>1. Ended
    BY DEF BInv
  <2>2. pc \in After => fut[f] \in Busy
    BY <2>1, <1>3 DEF Ended
  <2>3. pc = "last" => cancelled
    BY <2>1, <2>2 DEF Ended, Quiet, After
  <2>4. result # "ok"
    BY <2>1, <2>2 DEF Ended, Quiet, After
  <2>5. pc \in After => \A g \in Futures : fut'[g] # "queued"
    BY <2>1, <1>1, <1>4 DEF Ended
  <2> QED  BY <2>1, <2>3, <2>4, <2>5, <1>2 DEF Ended
<1>7. ASSUME NEW i \in Segs
      PROVE  Fresh(i)'
  <2>1. Fresh(i)
    BY DEF BInv
  <2> QED  BY <2>1, <1>1, <1>2, <1>4, FuturesOf DEF Fresh
<1> QED  BY <1>5, <1>6, <1>7

\* The parts of a segment the future is not a part of.
LEMMA OtherParts ==
  ASSUME BInv, NEW f \in Futures, NEW s \in Busy \cup Finished, Runs(f, s), NEW i \in Segs,
         f \in Whole \/ f.seg # i,
         gaps'[i] = gaps[i], partsLeft'[i] = partsLeft[i], i \in partAbort' <=> i \in partAbort
  PROVE  PartsKept(i) /\ Counted(i)' /\ SplitOnce(i)'
<1>1. fut'[f] = s /\ \A g \in Futures : g # f => fut'[g] = fut[g]
  BY RunsSets
<1>2. \A k \in 1..PartsMax : Part(i, k) # f
  BY FuturesOf, WholeIsNoPart
<1>3. PartsKept(i)
  BY <1>1, <1>2, FuturesOf DEF PartsKept
<1>4. Counted(i)'
  BY <1>3, CountedFrame DEF Runs
<1>5. fut'[Primary(i)] = fut[Primary(i)] \/ fut[Primary(i)] # "none"
  BY <1>1, FuturesOf DEF Runs, Busy, Returned
<1>6. LineKept(i)
  BY <1>5 DEF LineKept, Runs, loopVars, tailVars
<1> QED  BY <1>3, <1>4, <1>6, SplitFrame

\* Segments the future is not of stay covered.
LEMMA OtherCovered ==
  ASSUME BInv, NEW f \in Futures, NEW s \in Busy \cup Finished, Runs(f, s), NEW i \in Segs,
         f.seg # i, PartsKept(i), segDone \subseteq segDone', Covered(i)
  PROVE  Covered(i)'
<1>1. fut'[f] = s /\ \A g \in Futures : g # f => fut'[g] = fut[g]
  BY RunsSets
<1>2. Out(i)' = Out(i)
  BY SetsKept
<1>3. pending' = pending /\ remaining' = remaining /\ tailSkipped' = tailSkipped
  BY DEF Runs, loopVars, tailVars
<1>4. (\E g \in Whole : g \in pending /\ g.seg = i /\ fut[g] # "fin")
      => \E g \in Whole : g \in pending /\ g.seg = i /\ fut'[g] # "fin"
  BY <1>1 DEF Futures
<1>5. (\E k \in 1..PartsMax : Part(i, k) \in pending /\ fut[Part(i, k)] \in {"failed", "denied"})
      => \E k \in 1..PartsMax : Part(i, k) \in pending /\ fut'[Part(i, k)] \in {"failed", "denied"}
  BY DEF PartsKept
<1> HIDE DEF Out
<1> QED  BY <1>2, <1>3, <1>4, <1>5 DEF Covered, PartsKept

LEMMA WorkerComplete ==
  ASSUME BInv, NEW f \in Futures, NEW s \in Busy \cup Finished, Runs(f, s),
         segDone \subseteq segDone', segDone' \subseteq Segs,
         \A i \in Segs : i # f.seg => PartsKept(i),
         pc \in Before /\ ~cancelled => Covered(f.seg)'
  PROVE  Complete'
<1>1. Complete
  BY DEF BInv
<1>2. pc' = pc /\ cancelled' = cancelled /\ result' = result
  BY DEF Runs, loopVars
<1>3. ASSUME pc \in Before, ~cancelled, NEW i \in Segs
      PROVE  Covered(i)'
  <2>1. CASE i = f.seg
    BY <2>1, <1>3
  <2>2. CASE i # f.seg
    <3>1. Covered(i)
      BY <1>1, <1>3 DEF Complete
    <3> QED  BY <3>1, <2>2, OtherCovered
  <2> QED  BY <2>1, <2>2
<1>4. pc \in {"finally", "join", "last"} /\ ~cancelled /\ result = "none" => segDone' = Segs
  BY <1>1 DEF Complete
<1> QED  BY <1>2, <1>3, <1>4 DEF Complete

LEMMA RunningIsPending ==
  ASSUME BInv, NEW f \in Futures, fut[f] \in {"queued"} \cup Busy, pc \in Before
  PROVE  f \in pending
BY DEF BInv, Waited

\* A racer for a whole segment: the segment is done, or the racer is still
\* waited for.
LEMMA WholeFrame ==
  ASSUME BInv, NEW f \in Whole, NEW s \in (Busy \cup Finished) \ {"dropped"}, Runs(f, s),
         UNCHANGED partVars, segDone \subseteq segDone', segDone' \subseteq Segs,
         s # "fin" \/ f.seg \in segDone' \/ cancelled \/ batchAbort
  PROVE  /\ Waited' /\ Ended' /\ Complete'
         /\ \A i \in Segs : Counted(i)' /\ SplitOnce(i)' /\ Fresh(i)'
<1>0. f \in Futures
  BY DEF Futures
<1>1. Waited' /\ Ended' /\ \A i \in Segs : Fresh(i)'
  BY <1>0, WorkerFrame
<1>2. \A i \in Segs : PartsKept(i) /\ Counted(i)' /\ SplitOnce(i)'
  BY <1>0, OtherParts DEF partVars
<1>3. ASSUME pc \in Before, ~cancelled
      PROVE  Covered(f.seg)'
  <2>1. ~batchAbort
    BY <1>3 DEF BInv, Waited
  <2>2. fut'[f] = s /\ pending' = pending
    BY <1>0, RunsSets DEF Runs, loopVars
  <2>3. f \in pending
    BY <1>0, <1>3, RunningIsPending DEF Runs
  <2> QED  BY <2>1, <2>2, <2>3, <1>3 DEF Covered
<1>4. Complete'
  BY <1>0, <1>2, <1>3, WorkerComplete
<1> QED  BY <1>1, <1>2, <1>4

-----------------------------------------------------------------------------
(* Claims.                                                                 *)

LEMMA NewClaim ==
  ASSUME BInv, NEW f \in Futures, Runs(f, "claimed"), fut[f] # "claimed", f.seg \notin segDone,
         segDone' = segDone \cup {f.seg}, UNCHANGED <<file, unplaced, events>>
  PROVE  OneWinner' /\ NeverHoley' /\ \A i \in Segs : Raced(i)'
<1>1. fut'[f] = "claimed" /\ \A g \in Futures : g # f => fut'[g] = fut[g]
  BY RunsSets DEF Busy
<1>2. OneWinner /\ NeverHoley /\ \A i \in Segs : Raced(i)
  BY DEF BInv
<1>3. reported' = reported
  BY DEF Runs
<1>4. f.seg \in Segs /\ ~Claimed(f.seg) /\ f.seg \notin events \cup reported \cup unplaced
  BY <1>2, SegOf DEF Raced
<1>5. \A g \in Futures : fut[g] = "claimed" => g.seg # f.seg
  BY <1>4 DEF Claimed
<1>6. OneWinner'
  BY <1>1, <1>2, <1>3, <1>4, <1>5 DEF OneWinner
<1>7. NeverHoley'
  BY <1>2 DEF NeverHoley
<1>8. ASSUME NEW i \in Segs
      PROVE  Raced(i)'
  <2>1. Claimed(i)' <=> Claimed(i) \/ i = f.seg
    BY <1>1 DEF Claimed
  <2>2. Raced(i)
    BY <1>2
  <2> QED  BY <2>1, <2>2, <1>3 DEF Raced
<1> QED  BY <1>6, <1>7, <1>8

\* The winner has placed its segment, or failed to.
LEMMA ClaimOver ==
  ASSUME BInv, NEW f \in Futures, NEW s \in {"fin", "denied"}, Runs(f, s), fut[f] = "claimed",
         segDone' = segDone, file' \in [Segs -> {"none", "whole", "holey"}],
         \A i \in Segs : i # f.seg => file'[i] = file[i],
         \/ events' = events \cup {f.seg} /\ unplaced' = unplaced /\ file'[f.seg] = "whole"
         \/ events' = events /\ unplaced' = unplaced \cup {f.seg} /\ file'[f.seg] = file[f.seg]
  PROVE  OneWinner' /\ NeverHoley' /\ \A i \in Segs : Raced(i)'
<1>1. fut'[f] = s /\ \A g \in Futures : g # f => fut'[g] = fut[g]
  BY RunsSets DEF Finished
<1>2. OneWinner /\ NeverHoley /\ \A i \in Segs : Raced(i)
  BY DEF BInv
<1>3. reported' = reported
  BY DEF Runs
<1>4. f.seg \in Segs /\ f.seg \in segDone
  BY <1>2, SegOf DEF Raced, Claimed
<1>5. \A g \in Futures : g # f /\ fut[g] = "claimed" => g.seg # f.seg
  BY <1>2 DEF OneWinner
<1>6. \A g \in Futures : fut'[g] = "claimed" => g # f /\ fut[g] = "claimed"
  BY <1>1
<1>7. OneWinner'
  <2>1. \A g, h \in Futures : fut'[g] = "claimed" /\ fut'[h] = "claimed" /\ g.seg = h.seg => g = h
    BY <1>2, <1>6 DEF OneWinner
  <2>2. \A g \in Futures : fut'[g] = "claimed" => g.seg \notin events' \cup reported' \cup unplaced'
    BY <1>2, <1>3, <1>5, <1>6 DEF OneWinner
  <2> QED  BY <2>1, <2>2 DEF OneWinner
<1>8. NeverHoley'
  BY <1>2, <1>4 DEF NeverHoley
<1>9. ASSUME NEW i \in Segs
      PROVE  Raced(i)'
  <2>1. Raced(i)
    BY <1>2
  <2>2. CASE i = f.seg
    <3>1. Raced(f.seg)
      BY <2>1, <2>2
    <3>2. f.seg \in segDone' /\ f.seg \in events' \cup reported' \cup unplaced'
      BY <1>4
    <3>3. f.seg \in events' \cup reported' => file'[f.seg] = "whole"
      BY <3>1, <1>3 DEF Raced
    <3> QED  BY <3>2, <3>3, <2>2 DEF Raced
  <2>3. CASE i # f.seg
    <3>1. Claimed(i)' <=> Claimed(i)
      BY <1>1, <1>6, <2>3 DEF Claimed
    <3> QED  BY <3>1, <2>1, <2>3, <1>3 DEF Raced
  <2> QED  BY <2>2, <2>3
<1> QED  BY <1>7, <1>8, <1>9

-----------------------------------------------------------------------------
(* Parts at work.                                                          *)

LEMMA PartSets ==
  ASSUME BInv, NEW i \in Segs, NEW k \in 1..PartsMax, NEW s \in Busy \cup Finished, Runs(Part(i, k), s)
  PROVE  /\ Unread(i)' = IF s \in {"reading", "broken", "refused"} THEN Unread(i) \cup {k} ELSE Unread(i) \ {k}
         /\ Out(i)' = IF s \in {"reading"} \cup Returned THEN Out(i) \cup {k} ELSE Out(i) \ {k}
         /\ k \in Unread(i) <=> fut[Part(i, k)] \in {"queued", "reading", "broken", "refused"}
         /\ k \in Out(i) <=> fut[Part(i, k)] \in {"queued", "reading"} \cup Returned
<1>1. Part(i, k) \in Futures
  BY FuturesOf
<1>2. fut'[Part(i, k)] = s /\ \A g \in Futures : g # Part(i, k) => fut'[g] = fut[g]
  BY <1>1, RunsSets
<1>3. \A m \in 1..PartsMax : m # k => fut'[Part(i, m)] = fut[Part(i, m)]
  BY <1>2, FuturesOf, FuturesDiffer
<1>4. s # "queued"
  BY DEF Busy, Finished, Returned
<1>5. Unread(i)' = IF s \in {"reading", "broken", "refused"} THEN Unread(i) \cup {k} ELSE Unread(i) \ {k}
  BY <1>2, <1>3, <1>4 DEF Unread
<1>6. Out(i)' = IF s \in {"reading"} \cup Returned THEN Out(i) \cup {k} ELSE Out(i) \ {k}
  BY <1>2, <1>3, <1>4 DEF Out
<1>7. k \in Unread(i) <=> fut[Part(i, k)] \in {"queued", "reading", "broken", "refused"}
  BY DEF Unread
<1>8. k \in Out(i) <=> fut[Part(i, k)] \in {"queued", "reading"} \cup Returned
  BY DEF Out
<1> QED  BY <1>5, <1>6, <1>7, <1>8

LEMMA PartSplit ==
  ASSUME BInv, NEW i \in Segs, NEW k \in 1..PartsMax, NEW s \in Busy \cup Finished, Runs(Part(i, k), s),
         i \in partAbort => i \in partAbort'
  PROVE  SplitOnce(i)'
<1>1. Part(i, k) \in Futures /\ Primary(i) \in Futures /\ Primary(i) # Part(i, k)
  BY FuturesOf, FuturesDiffer
<1>2. fut'[Part(i, k)] = s /\ \A g \in Futures : g # Part(i, k) => fut'[g] = fut[g]
  BY <1>1, RunsSets
<1>3. SplitOnce(i)
  BY DEF BInv
<1>4. fut[Part(i, k)] # "none" /\ s # "none"
  BY DEF Runs, Busy, Finished, Returned
<1>5. Boosted(i)
  BY <1>3, <1>4 DEF SplitOnce
<1>6. Boosted(i)'
  <2>1. Part(i, 1) \in Futures
    BY FuturesOf, PartsMaxNat
  <2> QED  BY <1>2, <1>4, <1>5, <2>1 DEF Boosted
<1>7. fut'[Primary(i)] = fut[Primary(i)]
  BY <1>1, <1>2
<1>8. pc' = pc /\ remaining' = remaining /\ tailSkipped' = tailSkipped
  BY DEF Runs, loopVars, tailVars
<1> QED  BY <1>3, <1>5, <1>6, <1>7, <1>8 DEF SplitOnce

\* A part that is still out keeps its segment covered.
LEMMA PartCovered ==
  ASSUME BInv, NEW i \in Segs, NEW k \in 1..PartsMax, NEW s \in Busy \cup Finished, Runs(Part(i, k), s),
         Out(i)' = Out(i), i \in partAbort' <=> i \in partAbort, segDone \subseteq segDone', Covered(i)
  PROVE  Covered(i)'
<1>1. Part(i, k) \in Futures
  BY FuturesOf
<1>2. fut'[Part(i, k)] = s /\ \A g \in Futures : g # Part(i, k) => fut'[g] = fut[g]
  BY <1>1, RunsSets
<1>3. pending' = pending /\ remaining' = remaining /\ tailSkipped' = tailSkipped
  BY DEF Runs, loopVars, tailVars
<1>4. (\E g \in Whole : g \in pending /\ g.seg = i /\ fut[g] # "fin")
      => \E g \in Whole : g \in pending /\ g.seg = i /\ fut'[g] # "fin"
  BY <1>2, FuturesOf, WholeIsNoPart DEF Futures
<1>5. (\E m \in 1..PartsMax : Part(i, m) \in pending /\ fut[Part(i, m)] \in {"failed", "denied"})
      => \E m \in 1..PartsMax : Part(i, m) \in pending /\ fut'[Part(i, m)] \in {"failed", "denied"}
  <2>1. fut[Part(i, k)] \notin {"failed", "denied"}
    BY DEF Runs, Busy, Returned
  <2>2. ASSUME NEW m \in 1..PartsMax, Part(i, m) \in pending, fut[Part(i, m)] \in {"failed", "denied"}
        PROVE  fut'[Part(i, m)] \in {"failed", "denied"}
    <3>1. Part(i, m) # Part(i, k) /\ Part(i, m) \in Futures
      BY <2>1, <2>2, FuturesOf
    <3> QED  BY <3>1, <2>2, <1>2
  <2> QED  BY <2>2
<1> HIDE DEF Out
<1> QED  BY <1>3, <1>4, <1>5 DEF Covered

\* What the counters of the other segments, and everything else, keep.
LEMMA PartFrame ==
  ASSUME BInv, NEW i \in Segs, NEW k \in 1..PartsMax, NEW s \in (Busy \cup Finished) \ {"dropped"},
         Runs(Part(i, k), s), segDone \subseteq segDone', segDone' \subseteq Segs,
         \A j \in Segs : j # i => /\ gaps'[j] = gaps[j] /\ partsLeft'[j] = partsLeft[j]
                                  /\ (j \in partAbort' <=> j \in partAbort),
         i \in partAbort => i \in partAbort',
         pc \in Before /\ ~cancelled => Covered(i)',
         Counted(i)'
  PROVE  /\ Waited' /\ Ended' /\ Complete'
         /\ \A j \in Segs : Counted(j)' /\ SplitOnce(j)' /\ Fresh(j)'
<1>1. Part(i, k) \in Futures /\ Part(i, k).seg = i
  BY FuturesOf
<1>2. Waited' /\ Ended' /\ \A j \in Segs : Fresh(j)'
  BY <1>1, WorkerFrame
<1>3. \A j \in Segs : j # i => PartsKept(j) /\ Counted(j)' /\ SplitOnce(j)'
  BY <1>1, OtherParts
<1>4. SplitOnce(i)'
  BY PartSplit
<1>5. Complete'
  BY <1>1, <1>3, WorkerComplete
<1> QED  BY <1>2, <1>3, <1>4, <1>5

\* A part that reads, or stops reading.
LEMMA PartReads ==
  ASSUME BInv, NEW i \in Segs, NEW k \in 1..PartsMax, NEW s \in {"reading"} \cup Returned,
         Runs(Part(i, k), s), fut[Part(i, k)] \in {"queued", "reading"},
         segDone' = segDone, partsLeft' = partsLeft, partAbort' = partAbort,
         IF s = "got" THEN gaps' = [gaps EXCEPT ![i] = gaps[i] - 1]
         ELSE gaps' = gaps /\ (s = "short" => cancelled \/ i \in partAbort)
  PROVE  /\ Waited' /\ Ended' /\ Complete' /\ gaps' \in [Segs -> 0..PartsMax]
         /\ \A j \in Segs : Counted(j)' /\ SplitOnce(j)' /\ Fresh(j)'
<1>1. s \in (Busy \cup Finished) \ {"dropped"}
  BY DEF Busy, Finished, Returned
<1>2. k \in Unread(i) /\ k \in Out(i)
  BY <1>1, PartSets
<1>3. Out(i)' = Out(i) /\ Unread(i)' = IF s \in {"got", "short"} THEN Unread(i) \ {k} ELSE Unread(i)
  <2>1. s \in {"got", "short"} <=> s \notin {"reading", "broken", "refused"}
    BY DEF Returned
  <2>2. Unread(i)' = IF s \in {"reading", "broken", "refused"} THEN Unread(i) \cup {k} ELSE Unread(i) \ {k}
    BY <1>1, PartSets
  <2>3. Out(i)' = Out(i) \cup {k}
    BY <1>1, PartSets
  <2> HIDE DEF Unread, Out
  <2> QED  BY <1>2, <2>1, <2>2, <2>3
<1>4. /\ Cardinality(Unread(i)) \in Nat /\ Cardinality(Unread(i)) >= 1
      /\ Cardinality(Unread(i) \ {k}) = Cardinality(Unread(i)) - 1
  BY <1>2, OneLess, FiniteParts, CountSets
<1>5. Counted(i) /\ segDone \subseteq Segs /\ gaps \in [Segs -> 0..PartsMax] /\ PartsMax \in Nat
  BY PartsMaxNat DEF BInv, TypeOK
<1>6. gaps[i] >= 1 /\ gaps[i] \in Nat
  BY <1>4, <1>5 DEF Counted
<1>7. gaps' \in [Segs -> 0..PartsMax] /\ gaps'[i] = IF s = "got" THEN gaps[i] - 1 ELSE gaps[i]
  BY <1>5, <1>6
<1>8. \A m \in 1..PartsMax : fut'[Part(i, m)] = "claimed" => gaps'[i] = 0
  <2>1. Part(i, k) \in Futures /\ fut'[Part(i, k)] = s
        /\ \A g \in Futures : g # Part(i, k) => fut'[g] = fut[g]
    BY <1>1, FuturesOf, RunsSets
  <2>2. s # "claimed"
    BY DEF Returned
  <2>3. \A m \in 1..PartsMax : fut'[Part(i, m)] = "claimed" => fut[Part(i, m)] = "claimed"
    BY <2>1, <2>2, FuturesOf
  <2> QED  BY <2>3, <1>5, <1>6 DEF Counted
<1>9. Counted(i)'
  <2>1. cancelled' = cancelled
    BY DEF Runs
  <2>2. gaps'[i] >= Cardinality(Unread(i)') /\ partsLeft'[i] >= Cardinality(Out(i)')
    BY <1>3, <1>4, <1>5, <1>6, <1>7 DEF Counted
  <2>3. ~cancelled /\ i \notin partAbort =>
          gaps'[i] = Cardinality(Unread(i)') /\ partsLeft'[i] = Cardinality(Out(i)')
    BY <1>3, <1>4, <1>5, <1>6, <1>7 DEF Counted
  <2> QED  BY <2>1, <2>2, <2>3, <1>8 DEF Counted
<1>10. pc \in Before /\ ~cancelled => Covered(i)'
  <2>1. Complete
    BY DEF BInv
  <2> QED  BY <2>1, <1>1, <1>3, PartCovered DEF Complete
<1>11. \A j \in Segs : j # i => gaps'[j] = gaps[j]
  BY <1>5
<1> QED  BY <1>1, <1>5, <1>7, <1>9, <1>10, <1>11, PartFrame

\* A part of a segment that has been claimed is placed, or was not the one.
LEMMA PartPlaced ==
  ASSUME BInv, NEW i \in Segs, NEW k \in 1..PartsMax, NEW s \in {"fin", "denied"},
         Runs(Part(i, k), s), fut[Part(i, k)] = "claimed", segDone' = segDone, UNCHANGED partVars
  PROVE  /\ Waited' /\ Ended' /\ Complete'
         /\ \A j \in Segs : Counted(j)' /\ SplitOnce(j)' /\ Fresh(j)'
<1>1. s \in (Busy \cup Finished) \ {"dropped"} /\ s # "claimed"
  BY DEF Busy, Finished, Returned
<1>2. Unread(i)' = Unread(i) /\ Out(i)' = Out(i)
  <2>1. Unread(i)' = Unread(i) \ {k} /\ Out(i)' = Out(i) \ {k}
    BY <1>1, PartSets DEF Returned
  <2>2. k \notin Unread(i) /\ k \notin Out(i)
    BY DEF Unread, Out, Returned
  <2> HIDE DEF Unread, Out
  <2> QED  BY <2>1, <2>2
<1>3. Counted(i) /\ Raced(i) /\ segDone \subseteq Segs
  BY DEF BInv, TypeOK
<1>4. Part(i, k) \in Futures /\ Part(i, k).seg = i /\ fut'[Part(i, k)] = s
      /\ \A g \in Futures : g # Part(i, k) => fut'[g] = fut[g]
  BY <1>1, FuturesOf, RunsSets
<1>5. \A m \in 1..PartsMax : fut'[Part(i, m)] = "claimed" => fut[Part(i, m)] = "claimed"
  BY <1>1, <1>4, FuturesOf
<1>6. Counted(i)'
  BY <1>2, <1>3, <1>5 DEF Counted, partVars, Runs
<1>7. i \in segDone
  BY <1>3, <1>4 DEF Raced, Claimed
<1>8. Covered(i)'
  BY <1>7 DEF Covered
<1> QED  BY <1>1, <1>3, <1>6, <1>8, PartFrame DEF partVars

\* How a part may end: it claims the segment, or fails, or neither.
Wins(i, k) ==
  /\ ~cancelled /\ fut[Part(i, k)] \in {"got", "short"} /\ i \notin partAbort
  /\ partsLeft[i] = 1 /\ i \notin segDone
  /\ segDone' = segDone \cup {i} /\ partAbort' = partAbort
Fails(i, k, s) ==
  /\ fut[Part(i, k)] \in {"broken", "refused"}
  /\ s \in IF cancelled THEN {"fin"} ELSE {"failed", "denied"}
  /\ segDone' = segDone /\ partAbort' = partAbort \cup {i}
JustEnds(i, k) ==
  /\ fut[Part(i, k)] \in {"got", "short"}
  /\ cancelled \/ i \in partAbort \/ partsLeft[i] # 1 \/ i \in segDone
  /\ segDone' = segDone /\ partAbort' = partAbort

PartEnds(i, k, s) ==
  /\ Runs(Part(i, k), s)
  /\ gaps' = gaps /\ partsLeft' = [partsLeft EXCEPT ![i] = @ - 1]
  /\ \/ s = "claimed" /\ Wins(i, k)
     \/ Fails(i, k, s)
     \/ s = "fin" /\ JustEnds(i, k)

LEMMA PartEndsSets ==
  ASSUME BInv, NEW i \in Segs, NEW k \in 1..PartsMax, NEW s \in {"claimed", "fin", "failed", "denied"},
         PartEnds(i, k, s)
  PROVE  /\ Out(i)' = Out(i) \ {k} /\ Unread(i)' = Unread(i) \ {k} /\ k \in Out(i)
         /\ Cardinality(Out(i)) \in Nat /\ Cardinality(Out(i)) >= 1
         /\ Cardinality(Out(i)') = Cardinality(Out(i)) - 1
         /\ Cardinality(Unread(i)) \in Nat /\ Cardinality(Unread(i)') \in Nat
         /\ Cardinality(Unread(i)') <= Cardinality(Unread(i))
         /\ fut[Part(i, k)] \in {"got", "short"} => k \notin Unread(i)
         /\ partsLeft' \in [Segs -> 0..PartsMax] /\ partsLeft'[i] = partsLeft[i] - 1
         /\ partsLeft[i] \in Nat /\ gaps[i] \in Nat
<1>1. s \in Busy \cup Finished /\ Runs(Part(i, k), s)
  BY DEF PartEnds, Busy, Finished
<1>2. Out(i)' = Out(i) \ {k} /\ Unread(i)' = Unread(i) \ {k}
  BY <1>1, PartSets DEF Returned
<1>3. fut[Part(i, k)] \in Returned
  BY DEF PartEnds, Wins, Fails, JustEnds, Returned
<1>4. k \in Out(i) /\ (fut[Part(i, k)] \in {"got", "short"} => k \notin Unread(i))
  BY <1>3 DEF Out, Unread
<1> HIDE DEF Out, Unread
<1>5. /\ Cardinality(Out(i)) \in Nat /\ Cardinality(Out(i)) >= 1
      /\ Cardinality(Out(i)') = Cardinality(Out(i)) - 1
  BY <1>2, <1>4, OneLess, FiniteParts, CountSets
<1>6. /\ Cardinality(Unread(i)) \in Nat /\ Cardinality(Unread(i)') \in Nat
      /\ Cardinality(Unread(i)') <= Cardinality(Unread(i))
  BY <1>2, FiniteParts, FewerIsLess, CountSets
<1>7. Counted(i) /\ partsLeft \in [Segs -> 0..PartsMax] /\ gaps \in [Segs -> 0..PartsMax] /\ PartsMax \in Nat
  BY PartsMaxNat DEF BInv, TypeOK
<1>8. partsLeft[i] >= 1 /\ partsLeft[i] \in Nat /\ gaps[i] \in Nat
  BY <1>5, <1>7 DEF Counted
<1>9. partsLeft' \in [Segs -> 0..PartsMax] /\ partsLeft'[i] = partsLeft[i] - 1
  BY <1>7, <1>8 DEF PartEnds
<1> QED  BY <1>2, <1>4, <1>5, <1>6, <1>8, <1>9

LEMMA PartEndsCounted ==
  ASSUME BInv, NEW i \in Segs, NEW k \in 1..PartsMax, NEW s \in {"claimed", "fin", "failed", "denied"},
         PartEnds(i, k, s)
  PROVE  Counted(i)'
<1>1. Counted(i) /\ gaps' = gaps /\ cancelled' = cancelled
  BY DEF BInv, PartEnds, Runs
<1>2. gaps'[i] >= Cardinality(Unread(i)') /\ partsLeft'[i] >= Cardinality(Out(i)')
  BY <1>1, PartEndsSets DEF Counted
<1>3. ASSUME ~cancelled, i \notin partAbort'
      PROVE  gaps'[i] = Cardinality(Unread(i)') /\ partsLeft'[i] = Cardinality(Out(i)')
  <2>1. i \notin partAbort /\ fut[Part(i, k)] \in {"got", "short"}
    BY <1>3 DEF PartEnds, Wins, Fails, JustEnds
  <2>2. Unread(i)' = Unread(i)
    <3>1. Unread(i)' = Unread(i) \ {k} /\ k \notin Unread(i)
      BY <2>1, PartEndsSets
    <3> HIDE DEF Unread
    <3> QED  BY <3>1
  <2>3. gaps[i] = Cardinality(Unread(i)) /\ partsLeft[i] = Cardinality(Out(i))
    BY <2>1, <1>1, <1>3 DEF Counted
  <2>4. partsLeft'[i] = partsLeft[i] - 1 /\ Cardinality(Out(i)') = Cardinality(Out(i)) - 1
    BY PartEndsSets
  <2>5. Cardinality(Unread(i)') = Cardinality(Unread(i))
    BY <2>2
  <2> QED  BY <2>3, <2>4, <2>5, <1>1
<1>4. CASE s = "claimed"
  <2>1. Wins(i, k)
    BY <1>4 DEF PartEnds, Fails
  <2>2. gaps[i] = Cardinality(Unread(i)) /\ Cardinality(Out(i)) = 1
    BY <2>1, <1>1 DEF Wins, Counted
  <2>3. Out(i) \ {k} = {}
    <3>1. Cardinality(Out(i)') = 0
      BY <2>2, PartEndsSets
    <3> QED  BY <3>1, NoneIsZero, CountSets, PartEndsSets
  <2>4. k \notin Unread(i)
    BY <2>1, PartEndsSets DEF Wins
  <2>5. Unread(i) = {}
    BY <2>3, <2>4, CountSets
  <2>6. gaps[i] = 0
    BY <2>2, <2>5, NoneIsZero, CountSets
  <2> QED  BY <2>6, <1>1, <1>2, <1>3 DEF Counted
<1>5. CASE s # "claimed"
  <2>1. s \in Busy \cup Finished /\ Runs(Part(i, k), s)
    BY DEF PartEnds, Busy, Finished
  <2>2. Part(i, k) \in Futures /\ fut'[Part(i, k)] = s
        /\ \A g \in Futures : g # Part(i, k) => fut'[g] = fut[g]
    BY <2>1, FuturesOf, RunsSets
  <2>3. \A m \in 1..PartsMax : fut'[Part(i, m)] = "claimed" => fut[Part(i, m)] = "claimed"
    BY <2>2, <1>5, FuturesOf
  <2> QED  BY <2>3, <1>1, <1>2, <1>3 DEF Counted
<1> QED  BY <1>4, <1>5

LEMMA PartEndsCovered ==
  ASSUME BInv, NEW i \in Segs, NEW k \in 1..PartsMax, NEW s \in {"claimed", "fin", "failed", "denied"},
         PartEnds(i, k, s), pc \in Before, ~cancelled
  PROVE  Covered(i)'
<1>1. Covered(i) /\ Counted(i) /\ partsLeft[i] \in Nat
  BY PartEndsSets DEF BInv, Complete
<1>2. Part(i, k) \in Futures /\ fut'[Part(i, k)] = s
      /\ \A g \in Futures : g # Part(i, k) => fut'[g] = fut[g]
  BY FuturesOf, RunsSets DEF PartEnds, Busy, Finished
<1>3. pending' = pending /\ remaining' = remaining /\ tailSkipped' = tailSkipped
  BY DEF PartEnds, Runs, loopVars, tailVars
<1>4. segDone \subseteq segDone'
  BY DEF PartEnds, Wins, Fails, JustEnds
<1>5. Part(i, k) \in pending
  BY <1>2, RunningIsPending DEF PartEnds, Runs
<1>6. CASE i \in segDone' \/ i \in remaining
  BY <1>6, <1>3 DEF Covered
<1>7. CASE \E g \in Whole : g \in pending /\ g.seg = i /\ fut[g] # "fin"
  <2>1. \A g \in Whole : g \in Futures /\ g # Part(i, k)
    BY FuturesOf, WholeIsNoPart DEF Futures
  <2>2. \E g \in Whole : g \in pending' /\ g.seg = i /\ fut'[g] # "fin"
    BY <1>7, <2>1, <1>2, <1>3
  <2> QED  BY <2>2 DEF Covered
<1>8. CASE i \notin tailSkipped /\ Fails(i, k, s)
  <2>1. s \in {"failed", "denied"} /\ i \in partAbort'
    BY <1>8 DEF Fails
  <2> QED  BY <2>1, <1>2, <1>3, <1>5, <1>8 DEF Covered
<1>9. CASE i \notin tailSkipped /\ ~Fails(i, k, s) /\ i \notin segDone'
  <2>1. s = "fin" /\ JustEnds(i, k) /\ partAbort' = partAbort
    BY <1>9 DEF PartEnds, Wins, JustEnds
  <2>2. CASE i \in partAbort
    <3>1. i \notin segDone /\ (i \in remaining => Covered(i)')
      BY <1>4, <1>6, <1>9
    <3>2. CASE \E m \in 1..PartsMax : Part(i, m) \in pending /\ fut[Part(i, m)] \in {"failed", "denied"}
      <4>1. PICK m \in 1..PartsMax : Part(i, m) \in pending /\ fut[Part(i, m)] \in {"failed", "denied"}
        BY <3>2
      <4>2. Part(i, m) \in Futures /\ Part(i, m) # Part(i, k)
        BY <4>1, <2>1, FuturesOf DEF JustEnds
      <4>3. fut'[Part(i, m)] \in {"failed", "denied"}
        BY <4>1, <4>2, <1>2
      <4> QED  BY <4>1, <4>3, <1>3, <1>9, <2>1, <2>2 DEF Covered
    <3> QED  BY <3>1, <3>2, <1>1, <1>6, <1>7, <2>2 DEF Covered
  <2>3. CASE i \notin partAbort
    <3>1. partsLeft[i] # 1
      BY <2>1, <2>3, <1>4, <1>9 DEF JustEnds
    <3>2. partsLeft[i] = Cardinality(Out(i))
      BY <2>3, <1>1 DEF Counted
    <3>3. Cardinality(Out(i)') # 0
      BY <3>1, <3>2, PartEndsSets
    <3>4. Out(i)' # {}
      BY <3>3, NoneIsZero, CountSets
    <3> HIDE DEF Out
    <3> QED  BY <3>4, <2>1, <2>3, <1>3, <1>9 DEF Covered
  <2> QED  BY <2>2, <2>3
<1>10. CASE i \in tailSkipped
  BY <1>10, <1>1, <1>4, <1>6, <1>7 DEF Covered
<1> QED  BY <1>6, <1>8, <1>9, <1>10

LEMMA PartEndsFrame ==
  ASSUME BInv, NEW i \in Segs, NEW k \in 1..PartsMax, NEW s \in {"claimed", "fin", "failed", "denied"},
         PartEnds(i, k, s)
  PROVE  /\ Waited' /\ Ended' /\ Complete'
         /\ \A j \in Segs : Counted(j)' /\ SplitOnce(j)' /\ Fresh(j)'
<1>1. s \in (Busy \cup Finished) \ {"dropped"}
  BY DEF Busy, Finished, Returned
<1>2. segDone \subseteq segDone' /\ segDone' \subseteq Segs /\ partAbort \subseteq partAbort'
  BY DEF PartEnds, Wins, Fails, JustEnds, BInv, TypeOK
<1>3. \A j \in Segs : j # i => j \in partAbort' <=> j \in partAbort
  BY DEF PartEnds, Wins, Fails, JustEnds
<1>4. \A j \in Segs : j # i => gaps'[j] = gaps[j] /\ partsLeft'[j] = partsLeft[j]
  BY DEF PartEnds, BInv, TypeOK
<1>5. Runs(Part(i, k), s)
  BY DEF PartEnds
<1> QED  BY <1>1, <1>2, <1>3, <1>4, <1>5, PartEndsCounted, PartEndsCovered, PartFrame

-----------------------------------------------------------------------------
(* The steps of the workers.                                               *)

LEMMA WorkerTyped ==
  ASSUME BInv, NEW f \in Futures, NEW s \in Busy \cup Finished, Runs(f, s),
         partsLeft' \in [Segs -> 0..PartsMax], gaps' \in [Segs -> 0..PartsMax], partAbort' \subseteq Segs,
         started' \subseteq Segs, segDone' \subseteq Segs, unplaced' \subseteq Segs, events' \subseteq Segs,
         timed' \in BOOLEAN, file' \in [Segs -> {"none", "whole", "holey"}]
  PROVE  TypeOK'
<1>1. fut' \in [Futures -> {"none", "queued"} \cup Busy \cup Finished]
  BY RunsSets DEF FutState
<1>2. TypeOK
  BY DEF BInv
<1> HIDE DEF Busy, Finished
<1>3. {timed', cancelled', batchAbort'} \subseteq BOOLEAN
  BY <1>2 DEF TypeOK, Runs
<1>4. /\ adaptive' \in BOOLEAN /\ pc' = pc /\ target' \in Nat /\ remaining' \subseteq Segs
      /\ pending' \subseteq Futures /\ result' = result
      /\ hedged' \subseteq Segs /\ tailBoosted' \subseteq Segs /\ tailSkipped' \subseteq Segs
      /\ reported' \subseteq Segs
  BY <1>2 DEF TypeOK, Runs, loopVars, tailVars
<1> QED  BY <1>1, <1>2, <1>3, <1>4 DEF TypeOK

\* A worker that neither claims a segment nor places one.
LEMMA NoClaimKept ==
  ASSUME BInv, NEW f \in Futures, NEW s \in (Busy \cup Finished) \ {"claimed"}, Runs(f, s),
         fut[f] # "claimed", segDone' = segDone, UNCHANGED <<file, unplaced, events>>
  PROVE  OneWinner' /\ NeverHoley' /\ \A i \in Segs : Raced(i)'
<1>1. fut'[f] = s /\ \A g \in Futures : g # f => fut'[g] = fut[g]
  BY RunsSets
<1>2. \A g \in Futures : fut'[g] = "claimed" <=> fut[g] = "claimed"
  BY <1>1
<1>3. ClaimsKept
  BY <1>2 DEF ClaimsKept, Runs
<1> QED  BY <1>3, ClaimsFrame

LEMMA TypesNow ==
  ASSUME BInv
  PROVE  /\ partsLeft \in [Segs -> 0..PartsMax] /\ gaps \in [Segs -> 0..PartsMax] /\ partAbort \subseteq Segs
         /\ started \subseteq Segs /\ segDone \subseteq Segs /\ unplaced \subseteq Segs /\ events \subseteq Segs
         /\ timed \in BOOLEAN /\ file \in [Segs -> {"none", "whole", "holey"}]
BY DEF BInv, TypeOK

LEMMA FindFileKeeps ==
  ASSUME BInv, NEW f \in Futures, FindFile(f)
  PROVE  BInv'
<1> DEFINE s == IF f.seg \in segDone THEN "fin" ELSE "claimed"
<1>1. s \in (Busy \cup Finished) \ {"dropped"} /\ Runs(f, s) /\ f \in Whole /\ f.seg \in Segs
  BY SegOf DEF FindFile, Runs, Busy, Finished
<1>2. segDone' = segDone \cup {f.seg} /\ UNCHANGED partVars /\ UNCHANGED <<started, timed, file, unplaced, events>>
  BY DEF FindFile
<1>3. segDone' \subseteq Segs
  BY <1>1, <1>2, TypesNow
<1>4. Waited' /\ Ended' /\ Complete' /\ \A i \in Segs : Counted(i)' /\ SplitOnce(i)' /\ Fresh(i)'
  BY <1>1, <1>2, <1>3, WholeFrame
<1>5. TypeOK'
  BY <1>1, <1>2, <1>3, WorkerTyped, TypesNow DEF partVars
<1>6. OneWinner' /\ NeverHoley' /\ \A i \in Segs : Raced(i)'
  <2>1. fut[f] # "claimed"
    BY DEF FindFile
  <2>2. CASE f.seg \in segDone
    <3>1. s = "fin" /\ segDone' = segDone
      BY <2>2, <1>2
    <3>2. "fin" \in (Busy \cup Finished) \ {"claimed"}
      BY DEF Finished
    <3> QED  BY <3>1, <3>2, <2>1, <1>1, <1>2, NoClaimKept
  <2>3. CASE f.seg \notin segDone
    BY <2>1, <2>3, <1>1, <1>2, NewClaim
  <2> QED  BY <2>2, <2>3
<1> QED  BY <1>4, <1>5, <1>6 DEF BInv

LEMMA ClaimKeeps ==
  ASSUME BInv, NEW f \in Futures, Claim(f)
  PROVE  BInv'
<1> DEFINE s == IF f.seg \in segDone THEN "fin" ELSE "claimed"
<1>1. s \in (Busy \cup Finished) \ {"dropped"} /\ Runs(f, s) /\ f \in Whole /\ f.seg \in Segs
  BY SegOf DEF Claim, Runs, Busy, Finished, Returned
<1>2. segDone' = segDone \cup {f.seg} /\ UNCHANGED partVars /\ UNCHANGED <<started, file, unplaced, events>>
  BY DEF Claim
<1>3. segDone' \subseteq Segs /\ timed' \in BOOLEAN
  BY <1>1, <1>2, TypesNow DEF Claim
<1>4. Waited' /\ Ended' /\ Complete' /\ \A i \in Segs : Counted(i)' /\ SplitOnce(i)' /\ Fresh(i)'
  BY <1>1, <1>2, <1>3, WholeFrame
<1>5. TypeOK'
  BY <1>1, <1>2, <1>3, WorkerTyped, TypesNow DEF partVars
<1>6. OneWinner' /\ NeverHoley' /\ \A i \in Segs : Raced(i)'
  <2>1. fut[f] # "claimed"
    BY DEF Claim
  <2>2. CASE f.seg \in segDone
    <3>1. s = "fin" /\ segDone' = segDone
      BY <2>2, <1>2
    <3>2. "fin" \in (Busy \cup Finished) \ {"claimed"}
      BY DEF Finished
    <3> QED  BY <3>1, <3>2, <2>1, <1>1, <1>2, NoClaimKept
  <2>3. CASE f.seg \notin segDone
    BY <2>1, <2>3, <1>1, <1>2, NewClaim
  <2> QED  BY <2>2, <2>3
<1> QED  BY <1>4, <1>5, <1>6 DEF BInv

\* A racer that reads, stops or fails.
LEMMA WholeReads ==
  ASSUME BInv, NEW f \in Whole, NEW s \in (Busy \cup Finished) \ {"claimed", "dropped"}, Runs(f, s),
         fut[f] # "claimed", segDone' = segDone, UNCHANGED partVars, UNCHANGED <<timed, file, unplaced, events>>,
         started' \subseteq Segs, s # "fin" \/ f.seg \in segDone \/ cancelled \/ batchAbort
  PROVE  BInv'
<1>1. f \in Futures /\ segDone' \subseteq Segs
  BY TypesNow DEF Futures
<1>2. Waited' /\ Ended' /\ Complete' /\ \A i \in Segs : Counted(i)' /\ SplitOnce(i)' /\ Fresh(i)'
  BY <1>1, WholeFrame
<1>3. TypeOK'
  BY <1>1, WorkerTyped, TypesNow DEF partVars
<1>4. OneWinner' /\ NeverHoley' /\ \A i \in Segs : Raced(i)'
  BY <1>1, NoClaimKept
<1> QED  BY <1>2, <1>3, <1>4 DEF BInv

\* A part that reads, stops or fails.
LEMMA PartReadsKeeps ==
  ASSUME BInv, NEW f \in Parts, NEW s \in {"reading"} \cup Returned, Runs(f, s),
         fut[f] \in {"queued", "reading"}, segDone' = segDone, partsLeft' = partsLeft, partAbort' = partAbort,
         UNCHANGED <<timed, file, unplaced, events>>, started' \subseteq Segs,
         IF s = "got" THEN gaps' = [gaps EXCEPT ![f.seg] = gaps[f.seg] - 1]
         ELSE gaps' = gaps /\ (s = "short" => cancelled \/ f.seg \in partAbort)
  PROVE  BInv'
<1>1. f \in Futures /\ f.seg \in Segs
  BY SegOf DEF Futures
<1>2. PICK k \in 1..PartsMax : f = Part(f.seg, k)
  BY PartOf
<1>3. s \in (Busy \cup Finished) \ {"claimed"} /\ segDone' \subseteq Segs /\ fut[f] # "claimed"
  BY TypesNow DEF Busy, Returned
<1>4. Waited' /\ Ended' /\ Complete' /\ gaps' \in [Segs -> 0..PartsMax]
      /\ \A i \in Segs : Counted(i)' /\ SplitOnce(i)' /\ Fresh(i)'
  BY <1>1, <1>2, PartReads
<1>5. TypeOK'
  BY <1>1, <1>3, <1>4, WorkerTyped, TypesNow
<1>6. OneWinner' /\ NeverHoley' /\ \A i \in Segs : Raced(i)'
  BY <1>1, <1>3, NoClaimKept
<1> QED  BY <1>4, <1>5, <1>6 DEF BInv

LEMMA BeginReadingKeeps ==
  ASSUME BInv, NEW f \in Futures, BeginReading(f)
  PROVE  BInv'
<1>1. f.seg \in Segs
  BY SegOf
<1>2. Runs(f, "reading") /\ fut[f] = "queued" /\ segDone' = segDone /\ UNCHANGED partVars
      /\ UNCHANGED <<timed, file, unplaced, events>>
  BY DEF BeginReading, Runs
<1>3. started' \subseteq Segs
  BY <1>1, TypesNow DEF BeginReading
<1>4. "reading" \in (Busy \cup Finished) \ {"claimed", "dropped"} /\ "reading" # "fin"
  BY DEF Busy
<1>5. CASE f \in Whole
  BY <1>2, <1>3, <1>4, <1>5, WholeReads
<1>6. CASE f \in Parts
  BY <1>2, <1>3, <1>6, PartReadsKeeps DEF partVars
<1> QED  BY <1>5, <1>6 DEF Futures

LEMMA ReadAllKeeps ==
  ASSUME BInv, NEW f \in Futures, ReadAll(f)
  PROVE  BInv'
<1>1. f.seg \in Segs
  BY SegOf
<1>2. Runs(f, "got") /\ fut[f] = "reading" /\ segDone' = segDone /\ partsLeft' = partsLeft
      /\ partAbort' = partAbort /\ UNCHANGED <<started, timed, file, unplaced, events>>
  BY DEF ReadAll, Runs, segVars, Busy
<1>3. started' \subseteq Segs
  BY <1>2, TypesNow
<1>4. "got" \in (Busy \cup Finished) \ {"claimed", "dropped"} /\ "got" # "fin"
  BY DEF Busy, Returned
<1>5. CASE f \in Whole
  <2>1. gaps' = gaps
    BY <1>1, <1>5, WholeIsNoPart, TypesNow DEF ReadAll
  <2> QED  BY <2>1, <1>2, <1>3, <1>4, <1>5, WholeReads DEF partVars
<1>6. CASE f \in Parts
  <2>1. gaps' = [gaps EXCEPT ![f.seg] = gaps[f.seg] - 1]
    BY <1>6 DEF ReadAll
  <2>2. "got" \in {"reading"} \cup Returned
    BY DEF Returned
  <2> QED  BY <2>1, <2>2, <1>2, <1>3, <1>6, PartReadsKeeps
<1> QED  BY <1>5, <1>6 DEF Futures

LEMMA ReadStopsKeeps ==
  ASSUME BInv, NEW f \in Futures, ReadStops(f)
  PROVE  BInv'
<1>1. fut[f] = "reading" /\ segDone' = segDone /\ partVars' = partVars
      /\ UNCHANGED <<started, timed, file, unplaced, events>>
  BY DEF ReadStops, segVars
<1>2. started' \subseteq Segs
  BY <1>1, TypesNow
<1>3. CASE f \in Whole
  <2>1. f \notin Parts
    BY <1>3, WholeIsNoPart
  <2>2. Runs(f, "fin") /\ (cancelled \/ batchAbort \/ f.seg \in segDone)
    BY <2>1 DEF ReadStops, Runs, Stopped, Busy
  <2>3. "fin" \in (Busy \cup Finished) \ {"claimed", "dropped"}
    BY DEF Finished
  <2> QED  BY <2>2, <2>3, <1>1, <1>2, <1>3, WholeReads
<1>4. CASE f \in Parts
  <2>1. f \notin Whole
    BY <1>4, WholeIsNoPart
  <2>2. Runs(f, "short") /\ (cancelled \/ f.seg \in partAbort)
    BY <2>1, <1>4 DEF ReadStops, Runs, Stopped, Busy
  <2>3. "short" \in {"reading"} \cup Returned
    BY DEF Returned
  <2> QED  BY <2>2, <2>3, <1>1, <1>2, <1>4, PartReadsKeeps DEF partVars
<1> QED  BY <1>3, <1>4 DEF Futures

LEMMA ReadFailsKeeps ==
  ASSUME BInv, NEW f \in Futures, ReadFails(f)
  PROVE  BInv'
<1>1. fut[f] = "reading" /\ segDone' = segDone /\ partVars' = partVars
      /\ UNCHANGED <<started, timed, file, unplaced, events>>
  BY DEF ReadFails, segVars
<1>2. started' \subseteq Segs
  BY <1>1, TypesNow
<1>3. PICK e \in IF f \in Parts THEN {"broken", "refused"} ELSE {"failed", "denied"} :
        fut' = [fut EXCEPT ![f] = e]
  BY DEF ReadFails
<1>4. Runs(f, e)
  BY <1>3 DEF ReadFails, Runs, Busy
<1>5. CASE f \in Whole
  <2>1. e \in {"failed", "denied"}
    BY <1>3, <1>5, WholeIsNoPart
  <2>2. e \in (Busy \cup Finished) \ {"claimed", "dropped"} /\ e # "fin"
    BY <2>1 DEF Finished
  <2> QED  BY <2>2, <1>1, <1>2, <1>4, <1>5, WholeReads
<1>6. CASE f \in Parts
  <2>1. e \in {"reading"} \cup Returned /\ e # "got" /\ e # "short"
    BY <1>3, <1>6 DEF Returned
  <2> QED  BY <2>1, <1>1, <1>2, <1>4, <1>6, PartReadsKeeps DEF partVars
<1> QED  BY <1>5, <1>6 DEF Futures

LEMMA PartReturnsKeeps ==
  ASSUME BInv, NEW f \in Futures, PartReturns(f)
  PROVE  BInv'
<1> DEFINE i      == f.seg
           failed == fut[f] \in {"broken", "refused"}
           wins   == /\ ~cancelled /\ ~failed /\ i \notin partAbort
                     /\ partsLeft[i] = 1 /\ i \notin segDone
           s      == IF wins THEN "claimed" ELSE IF cancelled \/ ~failed THEN "fin"
                     ELSE IF fut[f] = "broken" THEN "failed" ELSE "denied"
<1>1. i \in Segs /\ f \in Parts /\ fut[f] \in Returned
  BY SegOf DEF PartReturns
<1>2. PICK k \in 1..PartsMax : f = Part(i, k)
  BY <1>1, PartOf
<1>3. s \in {"claimed", "fin", "failed", "denied"} /\ (s = "claimed" <=> wins)
  OBVIOUS
<1>4. Runs(f, s)
  BY DEF PartReturns, Runs, Busy
<1>5. /\ gaps' = gaps /\ partsLeft' = [partsLeft EXCEPT ![i] = @ - 1]
      /\ segDone' = segDone \cup {j \in {i} : wins} /\ partAbort' = partAbort \cup {j \in {i} : failed}
      /\ UNCHANGED <<started, file, unplaced, events>>
  BY DEF PartReturns
<1>6. timed' \in BOOLEAN
  BY DEF PartReturns, BInv, TypeOK
<1>7. PartEnds(i, k, s)
  <2>1. CASE wins
    <3>1. segDone' = segDone \cup {i} /\ partAbort' = partAbort
      BY <2>1, <1>5
    <3> QED  BY <3>1, <2>1, <1>1, <1>2, <1>4, <1>5 DEF PartEnds, Wins, Returned
  <2>2. CASE failed
    <3>1. segDone' = segDone /\ partAbort' = partAbort \cup {i}
      BY <2>2, <1>5
    <3>2. s \in IF cancelled THEN {"fin"} ELSE {"failed", "denied"}
      BY <2>2
    <3> HIDE DEF s
    <3> QED  BY <3>1, <3>2, <2>2, <1>2, <1>4, <1>5 DEF PartEnds, Fails
  <2>3. CASE ~wins /\ ~failed
    <3>1. segDone' = segDone /\ partAbort' = partAbort
      BY <2>3, <1>5
    <3>2. s = "fin"
      BY <2>3
    <3> QED  BY <3>1, <3>2, <2>3, <1>1, <1>2, <1>4, <1>5 DEF PartEnds, JustEnds, Returned
  <2> QED  BY <2>1, <2>2, <2>3
<1>8. Waited' /\ Ended' /\ Complete' /\ \A j \in Segs : Counted(j)' /\ SplitOnce(j)' /\ Fresh(j)'
  <2> HIDE DEF s
  <2> QED  BY <1>1, <1>3, <1>7, PartEndsFrame
<1>9. partsLeft' \in [Segs -> 0..PartsMax]
  <2> HIDE DEF s
  <2> QED  BY <1>1, <1>3, <1>7, PartEndsSets
<1>10. s \in Busy \cup Finished
  BY DEF Busy, Finished
<1>11. TypeOK'
  <2>1. segDone' \subseteq Segs /\ partAbort' \subseteq Segs
    BY <1>1, <1>5, TypesNow
  <2> HIDE DEF s
  <2> QED  BY <2>1, <1>4, <1>5, <1>6, <1>9, <1>10, WorkerTyped, TypesNow
<1>12. OneWinner' /\ NeverHoley' /\ \A j \in Segs : Raced(j)'
  <2>1. fut[f] # "claimed"
    BY <1>1 DEF Returned
  <2>2. CASE wins
    <3>1. s = "claimed" /\ segDone' = segDone \cup {i}
      BY <2>2, <1>5
    <3> QED  BY <3>1, <2>1, <2>2, <1>4, <1>5, NewClaim
  <2>3. CASE ~wins
    <3>1. s # "claimed" /\ segDone' = segDone
      BY <2>3, <1>5
    <3>2. s \in (Busy \cup Finished) \ {"claimed"}
      BY <3>1, <1>10
    <3> HIDE DEF s
    <3> QED  BY <3>1, <3>2, <2>1, <1>4, <1>5, NoClaimKept
  <2> QED  BY <2>2, <2>3
<1> QED  BY <1>8, <1>11, <1>12 DEF BInv

\* What happens to the parts when a winner has placed its segment.
LEMMA PlacedFrame ==
  ASSUME BInv, NEW f \in Futures, NEW s \in {"fin", "denied"}, Runs(f, s), fut[f] = "claimed",
         segDone' = segDone, UNCHANGED partVars
  PROVE  Waited' /\ Ended' /\ Complete' /\ \A i \in Segs : Counted(i)' /\ SplitOnce(i)' /\ Fresh(i)'
<1>1. f.seg \in Segs /\ f.seg \in segDone /\ segDone' \subseteq Segs
  BY SegOf, TypesNow DEF BInv, Raced, Claimed
<1>2. s \in (Busy \cup Finished) \ {"dropped"}
  BY DEF Finished
<1>3. CASE f \in Whole
  BY <1>1, <1>2, <1>3, WholeFrame
<1>4. CASE f \in Parts
  <2>1. PICK k \in 1..PartsMax : f = Part(f.seg, k)
    BY <1>4, PartOf
  <2> QED  BY <2>1, <1>1, PartPlaced
<1> QED  BY <1>3, <1>4 DEF Futures

LEMMA DeliverKeeps ==
  ASSUME BInv, NEW f \in Futures, Deliver(f)
  PROVE  BInv'
<1>1. f.seg \in Segs /\ fut[f] = "claimed" /\ Runs(f, "fin") /\ "fin" \in Busy \cup Finished
  BY SegOf DEF Deliver, Runs, Busy, Finished
<1>2. segDone' = segDone /\ UNCHANGED partVars /\ UNCHANGED <<started, timed, unplaced>>
      /\ events' = events \cup {f.seg}
  BY DEF Deliver
<1>3. f \in Parts => gaps[f.seg] = 0
  <2>1. ASSUME f \in Parts
        PROVE  gaps[f.seg] = 0
    <3>1. PICK k \in 1..PartsMax : f = Part(f.seg, k)
      BY <2>1, PartOf
    <3> QED  BY <3>1, <1>1 DEF BInv, Counted
  <2> QED  BY <2>1
<1>4. file' = [file EXCEPT ![f.seg] = "whole"]
  <2>1. ~(f \in Parts /\ gaps[f.seg] > 0)
    BY <1>3
  <2>2. (IF f \in Parts /\ gaps[f.seg] > 0 THEN "holey" ELSE "whole") = "whole"
    BY <2>1
  <2> QED  BY <2>2, Zenon DEF Deliver
<1>5. file' \in [Segs -> {"none", "whole", "holey"}] /\ file'[f.seg] = "whole"
      /\ \A i \in Segs : i # f.seg => file'[i] = file[i]
  BY <1>1, <1>4, TypesNow
<1>6. OneWinner' /\ NeverHoley' /\ \A i \in Segs : Raced(i)'
  BY <1>1, <1>2, <1>5, ClaimOver
<1>7. Waited' /\ Ended' /\ Complete' /\ \A i \in Segs : Counted(i)' /\ SplitOnce(i)' /\ Fresh(i)'
  BY <1>1, <1>2, PlacedFrame
<1>8. TypeOK'
  BY <1>1, <1>2, <1>5, WorkerTyped, TypesNow DEF partVars
<1> QED  BY <1>6, <1>7, <1>8 DEF BInv

LEMMA DeliverFailsKeeps ==
  ASSUME BInv, NEW f \in Futures, DeliverFails(f)
  PROVE  BInv'
<1>1. f.seg \in Segs /\ fut[f] = "claimed" /\ Runs(f, "denied") /\ "denied" \in Busy \cup Finished
  BY SegOf DEF DeliverFails, Runs, Busy, Finished
<1>2. segDone' = segDone /\ UNCHANGED partVars /\ UNCHANGED <<started, timed, file, events>>
      /\ unplaced' = unplaced \cup {f.seg}
  BY DEF DeliverFails
<1>3. OneWinner' /\ NeverHoley' /\ \A i \in Segs : Raced(i)'
  BY <1>1, <1>2, ClaimOver, TypesNow
<1>4. Waited' /\ Ended' /\ Complete' /\ \A i \in Segs : Counted(i)' /\ SplitOnce(i)' /\ Fresh(i)'
  BY <1>1, <1>2, PlacedFrame
<1>5. TypeOK'
  BY <1>1, <1>2, WorkerTyped, TypesNow DEF partVars
<1> QED  BY <1>3, <1>4, <1>5 DEF BInv

LEMMA WorkerStepKeeps ==
  ASSUME BInv, NEW f \in Futures, WorkerStep(f)
  PROVE  BInv'
BY FindFileKeeps, BeginReadingKeeps, ReadAllKeeps, ReadStopsKeeps, ReadFailsKeeps, ClaimKeeps,
   PartReturnsKeeps, DeliverKeeps, DeliverFailsKeeps DEF WorkerStep

-----------------------------------------------------------------------------
(* The steps of the loop.                                                  *)

\* A step that leaves the futures as they are.
LEMMA StillKeeps ==
  ASSUME BInv, UNCHANGED <<fut, partVars, segVars>>, events' \cup reported' = events \cup reported,
         cancelled => cancelled' \/ pc = "end", \A i \in Segs : LineKept(i),
         TypeOK', Waited', Ended', Complete', \A i \in Segs : Fresh(i)'
  PROVE  BInv'
<1>1. ClaimsKept
  BY DEF ClaimsKept, segVars
<1>2. \A i \in Segs : PartsKept(i)
  BY DEF PartsKept, partVars
<1>3. OneWinner' /\ NeverHoley' /\ \A i \in Segs : Raced(i)'
  BY <1>1, ClaimsFrame
<1>4. \A i \in Segs : Counted(i)' /\ SplitOnce(i)'
  BY <1>2, CountedFrame, SplitFrame
<1> QED  BY <1>3, <1>4 DEF BInv

LEMMA CoveredStill ==
  ASSUME NEW i \in Segs, Covered(i), UNCHANGED <<fut, pending, partVars, segVars>>,
         i \in remaining => i \in remaining',
         i \in tailSkipped' => i \in tailSkipped \/ i \in remaining'
  PROVE  Covered(i)'
<1>1. Out(i)' = Out(i)
  BY DEF Out
<1> HIDE DEF Out
<1> QED  BY <1>1 DEF Covered, partVars, segVars

\* A step that queues futures nobody queued before.
Queues(Q) ==
  /\ pending' = pending \cup Q
  /\ fut' = [f \in Futures |-> IF f \in Q THEN "queued" ELSE fut[f]]

LEMMA QueueFrame ==
  ASSUME BInv, NEW Q \in SUBSET Futures, Queues(Q), \A f \in Q : fut[f] = "none",
         pc \in Before, pc' \in Before \cup {"finally"},
         UNCHANGED <<result, cancelled, batchAbort, segDone, file, unplaced, events, reported>>
  PROVE  /\ Waited' /\ Ended' /\ OneWinner' /\ NeverHoley' /\ \A i \in Segs : Raced(i)'
         /\ fut' \in [Futures -> FutState]
         /\ \A f \in Futures : fut'[f] = IF f \in Q THEN "queued" ELSE fut[f]
<1>1. fut \in [Futures -> FutState] /\ "queued" \in FutState
  BY DEF BInv, TypeOK, FutState
<1> HIDE DEF FutState
<1>2. fut' \in [Futures -> FutState]
  BY <1>1 DEF Queues
<1>3. \A f \in Futures : fut'[f] = IF f \in Q THEN "queued" ELSE fut[f]
  BY DEF Queues
<1>4. ClaimsKept
  BY <1>3 DEF ClaimsKept
<1>5. Waited'
  <2>1. Waited /\ pending \subseteq Futures
    BY DEF BInv, TypeOK
  <2>2. \A f \in pending' : fut'[f] # "none"
    BY <2>1, <1>3 DEF Waited, Queues
  <2>3. \A f \in Futures : (fut'[f] \in {"queued"} \cup Busy => f \in pending') /\ fut'[f] # "dropped"
    BY <2>1, <1>3 DEF Waited, Queues
  <2> QED  BY <2>1, <2>2, <2>3 DEF Waited
<1>6. Ended'
  <2>1. Ended /\ pc \notin {"last", "end"} /\ pc' \notin After
    BY DEF BInv, Before, After
  <2>2. result = "none"
    BY <2>1 DEF Ended
  <2>3. pc' # "last"
    BY <2>1 DEF After
  <2> QED  BY <2>1, <2>2, <2>3 DEF Ended
<1>7. OneWinner' /\ NeverHoley' /\ \A i \in Segs : Raced(i)'
  BY <1>4, ClaimsFrame
<1> QED  BY <1>2, <1>3, <1>5, <1>6, <1>7

\* A segment stays covered when futures are queued.
LEMMA QueueCovered ==
  ASSUME BInv, NEW Q \in SUBSET Futures, Queues(Q), \A f \in Q : fut[f] = "none",
         \A f \in Futures : fut'[f] = IF f \in Q THEN "queued" ELSE fut[f],
         NEW i \in Segs, Covered(i), UNCHANGED <<segDone, tailSkipped, partAbort>>,
         i \in remaining => i \in remaining' \/ Primary(i) \in Q
                            \/ (i \notin tailSkipped /\ i \notin partAbort /\ Out(i)' # {})
  PROVE  Covered(i)'
<1>1. pending \subseteq pending' /\ Q \subseteq pending'
  BY DEF Queues
<1>2. (\E f \in Whole : f \in pending /\ f.seg = i /\ fut[f] # "fin")
      => \E f \in Whole : f \in pending' /\ f.seg = i /\ fut'[f] # "fin"
  BY <1>1 DEF Futures
<1>3. Primary(i) \in Q => \E f \in Whole : f \in pending' /\ f.seg = i /\ fut'[f] # "fin"
  BY <1>1, FuturesOf
<1>4. \A k \in 1..PartsMax : Part(i, k) \in Futures
  BY FuturesOf
<1>5. Out(i) # {} => Out(i)' # {}
  BY <1>4 DEF Out, Returned
<1>6. (\E k \in 1..PartsMax : Part(i, k) \in pending /\ fut[Part(i, k)] \in {"failed", "denied"})
      => \E k \in 1..PartsMax : Part(i, k) \in pending' /\ fut'[Part(i, k)] \in {"failed", "denied"}
  BY <1>1, <1>4
<1> HIDE DEF Out
<1> QED  BY <1>2, <1>3, <1>5, <1>6 DEF Covered

LEMMA SubmitKeeps ==
  ASSUME BInv, NEW S \in SUBSET remaining, Submit(S), pc \in Before, pc' \in Before, target' \in Nat,
         UNCHANGED <<adaptive, result, tailVars, partVars, segVars, cancelled, batchAbort, events, reported>>
  PROVE  BInv'
<1> DEFINE Q == {Primary(i) : i \in S}
<1>1. TypeOK /\ remaining \subseteq Segs
  BY DEF BInv, TypeOK
<1>2. Q \in SUBSET Futures /\ Queues(Q) /\ remaining' = remaining \ S
  BY <1>1, FuturesOf DEF Submit, Queues
<1>3. \A f \in Q : fut[f] = "none"
  BY <1>1 DEF BInv, Fresh
<1>4. UNCHANGED <<segDone, file, unplaced>>
  BY DEF segVars
<1>5. \A i \in S : Primary(i) \in Q
  OBVIOUS
<1>6. \A i \in Segs : \A k \in 1..PartsMax : Part(i, k) \notin Q
  BY <1>1, FuturesDiffer
<1>7. \A i \in Segs : Hedge(i) \notin Q
  BY <1>1, FuturesDiffer, PartsMaxNat
<1>8. \A i \in Segs : Primary(i) \in Q => i \in S
  BY <1>1, FuturesDiffer, PartsMaxNat
<1> HIDE DEF Q
<1>9. /\ Waited' /\ Ended' /\ OneWinner' /\ NeverHoley' /\ \A i \in Segs : Raced(i)'
      /\ fut' \in [Futures -> FutState]
      /\ \A f \in Futures : fut'[f] = IF f \in Q THEN "queued" ELSE fut[f]
  BY <1>2, <1>3, <1>4, QueueFrame
<1>10. TypeOK'
  <2>1. pending' \subseteq Futures /\ remaining' \subseteq Segs
    BY <1>1, <1>2 DEF Queues, TypeOK
  <2>2. pc' \in {"start", "top", "boost", "feed", "hedge", "wait", "finally", "join", "last", "end"}
    BY DEF Before
  <2> QED  BY <1>1, <1>9, <2>1, <2>2 DEF TypeOK, FutState, tailVars, partVars, segVars
<1>11. ASSUME NEW i \in Segs
       PROVE  Counted(i)' /\ SplitOnce(i)' /\ Fresh(i)'
  <2>1. PartsKept(i)
    BY <1>6, <1>9, FuturesOf DEF PartsKept, partVars
  <2>2. LineKept(i)
    <3>1. pc' \notin After
      BY DEF Before, After
    <3>2. fut'[Primary(i)] = fut[Primary(i)] \/ i \in remaining
      BY <1>8, <1>9, FuturesOf
    <3> QED  BY <3>1, <3>2, <1>2 DEF LineKept, tailVars
  <2>3. Fresh(i)'
    <3>1. Fresh(i)
      BY DEF BInv
    <3>2. fut'[Hedge(i)] = fut[Hedge(i)]
      BY <1>7, <1>9, FuturesOf
    <3>3. i \in remaining' => i \in remaining /\ fut'[Primary(i)] = fut[Primary(i)]
      BY <1>2, <1>8, <1>9, FuturesOf
    <3> QED  BY <3>1, <3>2, <3>3 DEF Fresh, tailVars
  <2> QED  BY <2>1, <2>2, <2>3, CountedFrame, SplitFrame
<1>12. Complete'
  <2>1. pc' \notin {"finally", "join", "last"}
    BY DEF Before
  <2>2. ASSUME ~cancelled, NEW i \in Segs
        PROVE  Covered(i)'
    <3>1. Covered(i)
      BY <2>2 DEF BInv, Complete
    <3>2. i \in remaining => i \in remaining' \/ Primary(i) \in Q
      BY <1>2, <1>5
    <3> QED  BY <3>1, <3>2, <1>2, <1>3, <1>9, QueueCovered DEF tailVars, partVars, segVars
  <2> QED  BY <2>1, <2>2 DEF Complete
<1> QED  BY <1>9, <1>10, <1>11, <1>12 DEF BInv

LEMMA CapNat == Cap \in Nat /\ \A t \in Targets : t \in Nat
BY PartsMaxNat DEF Cap, Targets

LEMMA BeginKeeps ==
  ASSUME BInv, Begin
  PROVE  BInv'
<1>1. PICK S \in Picks(IF adaptive THEN Cap ELSE submission_window(MaxWorkers), Segs) : Submit(S)
  BY DEF Begin
<1>2. S \in SUBSET remaining
  BY DEF Picks
<1>3. target' \in Nat
  BY CapNat, PartsMaxNat DEF Begin
<1> QED  BY <1>1, <1>2, <1>3, SubmitKeeps DEF Begin, Before

LEMMA FeedKeeps ==
  ASSUME BInv, Feed
  PROVE  BInv'
<1>1. target' = target /\ target \in Nat /\ pc = "feed" /\ pc' = "hedge"
  BY DEF Feed, BInv, TypeOK
<1>2. CASE UNCHANGED <<remaining, pending, fut>>
  <2>1. UNCHANGED <<adaptive, result, tailVars, partVars, segVars, cancelled, batchAbort, events, reported>>
    BY DEF Feed
  <2>2. TypeOK'
    BY <1>1, <1>2, <2>1 DEF BInv, TypeOK, tailVars, partVars, segVars
  <2>3. Waited' /\ Ended'
    BY <1>1, <1>2, <2>1 DEF BInv, Waited, Ended, Before, After, Quiet, segVars
  <2>4. Complete'
    <3>1. ASSUME ~cancelled, NEW i \in Segs
          PROVE  Covered(i)'
      <4>1. Covered(i)
        BY <3>1, <1>1 DEF BInv, Complete, Before
      <4> QED  BY <4>1, <1>2, <2>1, CoveredStill DEF tailVars
    <3> QED  BY <3>1, <1>1, <2>1 DEF Complete
  <2>5. \A i \in Segs : Fresh(i)' /\ LineKept(i)
    BY <1>1, <1>2, <2>1 DEF BInv, Fresh, LineKept, After, tailVars
  <2> QED  BY <2>1, <2>2, <2>3, <2>4, <2>5, <1>2, StillKeeps
<1>3. CASE \E S \in SUBSET remaining : Submit(S)
  BY <1>1, <1>3, SubmitKeeps DEF Feed, Before
<1>4. UNCHANGED <<remaining, pending, fut>> \/ \E S \in SUBSET remaining : Submit(S)
  BY DEF Feed, Picks
<1> QED  BY <1>2, <1>3, <1>4

LEMMA TurnKeeps ==
  ASSUME BInv, Turn
  PROVE  BInv'
<1>1. /\ pc = "top" /\ pc' \in {"feed", "boost"} /\ target' \in Nat
      /\ remaining' = IF cancelled THEN {} ELSE remaining
      /\ tailSkipped' = tailSkipped \/ tailSkipped' = tailSkipped \cup remaining
      /\ UNCHANGED <<adaptive, pending, result, hedged, tailBoosted, partVars, segVars, fut, cancelled, batchAbort>>
  BY CapNat DEF Turn
<1>2. events' \cup reported' = events \cup reported /\ events' \subseteq Segs /\ reported' \subseteq Segs
  BY DEF Turn, Drain, BInv, TypeOK
<1>3. TypeOK'
  <2>1. remaining' \subseteq Segs /\ tailSkipped' \subseteq Segs
    BY <1>1 DEF BInv, TypeOK
  <2> QED  BY <1>1, <1>2, <2>1 DEF BInv, TypeOK, partVars, segVars
<1>4. Waited'
  BY <1>1 DEF BInv, Waited, Before
<1>5. Ended'
  BY <1>1 DEF BInv, Ended, Before, After, Quiet
<1>6. Complete'
  <2>1. ASSUME ~cancelled, NEW i \in Segs
        PROVE  Covered(i)'
    <3>1. Covered(i)
      BY <2>1, <1>1 DEF BInv, Complete, Before
    <3> QED  BY <3>1, <2>1, <1>1, CoveredStill
  <2> QED  BY <2>1, <1>1 DEF Complete
<1>7. \A i \in Segs : Fresh(i)' /\ LineKept(i)
  BY <1>1 DEF BInv, Fresh, LineKept, After
<1> QED  BY <1>1, <1>2, <1>3, <1>4, <1>5, <1>6, <1>7, StillKeeps

\* The loop moves on, and nothing else happens.
LEMMA MoveKeeps ==
  ASSUME BInv, UNCHANGED <<adaptive, target, remaining, pending, result, hedged, tailBoosted, partVars, segVars,
                           fut, cancelled, batchAbort, events, reported>>,
         tailSkipped' \subseteq Segs, tailSkipped \subseteq tailSkipped',
         \A i \in tailSkipped' : i \in tailSkipped \/ i \in remaining,
         pc \in Before, pc' \in Before \cup {"finally"}, pc' = "finally" /\ ~cancelled => segDone = Segs
  PROVE  BInv'
<1>1. pc' \in {"start", "top", "boost", "feed", "hedge", "wait", "finally", "join", "last", "end"}
  BY DEF Before
<1>2. TypeOK'
  BY <1>1 DEF BInv, TypeOK, partVars, segVars
<1>3. Waited' /\ Ended'
  BY DEF BInv, Waited, Ended, Before, After, Quiet, segVars
<1>4. Complete'
  <2>1. ASSUME ~cancelled, NEW i \in Segs
        PROVE  Covered(i)'
    <3>1. Covered(i)
      BY <2>1 DEF BInv, Complete
    <3> QED  BY <3>1, CoveredStill
  <2>2. pc' \in {"finally", "join", "last"} => pc' = "finally"
    BY DEF Before
  <2> QED  BY <2>1, <2>2 DEF Complete, segVars
<1>5. \A i \in Segs : Fresh(i)' /\ LineKept(i)
  BY DEF BInv, Fresh, LineKept, Before, After
<1> QED  BY <1>2, <1>3, <1>4, <1>5, StillKeeps

\* When nothing is left to submit or to wait for, every segment is done.
LEMMA NothingLeft ==
  ASSUME BInv, pc \in Before, ~cancelled, pending = {}, remaining = {}
  PROVE  segDone = Segs
<1>1. segDone \subseteq Segs
  BY TypesNow
<1>2. ASSUME NEW i \in Segs
      PROVE  i \in segDone
  <2>1. Covered(i)
    BY DEF BInv, Complete
  <2>2. Out(i) = {}
    <3>1. ASSUME NEW k \in Out(i)
          PROVE  FALSE
      <4>1. k \in 1..PartsMax /\ fut[Part(i, k)] \in {"queued"} \cup Busy
        BY <3>1 DEF Out, Busy
      <4>2. Part(i, k) \in pending
        BY <4>1, FuturesOf, RunningIsPending
      <4> QED  BY <4>2
    <3> QED  BY <3>1
  <2> HIDE DEF Out
  <2> QED  BY <2>1, <2>2 DEF Covered
<1> QED  BY <1>1, <1>2

LEMMA LoopEndsKeeps ==
  ASSUME BInv, LoopEnds
  PROVE  BInv'
<1>1. pc \in Before /\ pc' = "finally" /\ (~cancelled => segDone = Segs)
  BY NothingLeft DEF LoopEnds, Before
<1>2. tailSkipped' = tailSkipped /\ tailSkipped \subseteq Segs
  BY DEF LoopEnds, tailVars, BInv, TypeOK
<1> QED  BY <1>1, <1>2, MoveKeeps DEF LoopEnds, tailVars

LEMMA SkipSegmentKeeps ==
  ASSUME BInv, NEW i \in Segs, SkipSegment(i)
  PROVE  BInv'
<1>1. tailSkipped' = tailSkipped \cup {i} /\ i \in remaining /\ tailSkipped \subseteq Segs
  BY DEF SkipSegment, Candidates, BInv, TypeOK
<1>2. pc = "boost" /\ pc' = "boost"
  BY DEF SkipSegment, loopVars
<1> QED  BY <1>1, <1>2, MoveKeeps DEF SkipSegment, loopVars, Before

LEMMA BoostEndsKeeps ==
  ASSUME BInv, BoostEnds
  PROVE  BInv'
<1>1. tailSkipped' = tailSkipped /\ tailSkipped \subseteq Segs
  BY DEF BoostEnds, tailVars, BInv, TypeOK
<1> QED  BY <1>1, MoveKeeps DEF BoostEnds, tailVars, Before

LEMMA BoostSegmentKeeps ==
  ASSUME BInv, NEW i \in Segs, NEW n \in 2..PartsMax, BoostSegment(i, n)
  PROVE  BInv'
<1> DEFINE Q == {Part(i, k) : k \in 1..n}
<1>0. n \in 1..PartsMax /\ n \in 0..PartsMax /\ 1..n \subseteq 1..PartsMax /\ 1 \in 1..n
  BY PartsMaxNat
<1>1. TypeOK /\ i \in remaining /\ i \notin tailSkipped /\ pc = "boost" /\ pc' = pc
  BY DEF BInv, BoostSegment, Candidates
<1>2. SplitOnce(i) /\ Fresh(i)
  BY DEF BInv
<1>3. ~Boosted(i) /\ i \notin partAbort /\ \A k \in 1..PartsMax : fut[Part(i, k)] = "none"
  BY <1>1, <1>2 DEF SplitOnce
<1>4. Q \in SUBSET Futures /\ Queues(Q)
  BY <1>0, FuturesOf DEF BoostSegment, Queues
<1>5. \A f \in Q : fut[f] = "none"
  BY <1>0, <1>3
<1>6. UNCHANGED <<adaptive, target, result, hedged, tailSkipped, partAbort, timed, segDone, file,
                 unplaced, cancelled, batchAbort, events, reported>>
  BY DEF BoostSegment
<1>7. \A k \in 1..PartsMax : Part(i, k) \in Q <=> k \in 1..n
  BY <1>0, FuturesDiffer
<1>8. \A j \in Segs : j # i => \A k \in 1..PartsMax : Part(j, k) \notin Q
  BY <1>0, FuturesDiffer
<1>9. \A j \in Segs : Primary(j) \notin Q /\ Hedge(j) \notin Q
  BY <1>0, FuturesDiffer
<1> HIDE DEF Q
<1>10. /\ Waited' /\ Ended' /\ OneWinner' /\ NeverHoley' /\ \A j \in Segs : Raced(j)'
       /\ fut' \in [Futures -> FutState]
       /\ \A f \in Futures : fut'[f] = IF f \in Q THEN "queued" ELSE fut[f]
  BY <1>1, <1>4, <1>5, <1>6, QueueFrame DEF Before
<1>11. \A k \in 1..PartsMax : fut'[Part(i, k)] = IF k \in 1..n THEN "queued" ELSE "none"
  BY <1>3, <1>7, <1>10, FuturesOf
<1>12. Unread(i)' = 1..n /\ Out(i)' = 1..n
  BY <1>0, <1>11 DEF Unread, Out, Returned
<1>13. \A j \in Segs : fut'[Primary(j)] = fut[Primary(j)] /\ fut'[Hedge(j)] = fut[Hedge(j)]
  BY <1>9, <1>10, FuturesOf
<1>14. /\ remaining' = remaining \ {i} /\ started' \subseteq Segs /\ tailBoosted' \subseteq Segs
       /\ partsLeft' \in [Segs -> 0..PartsMax] /\ gaps' \in [Segs -> 0..PartsMax]
       /\ partsLeft'[i] = n /\ gaps'[i] = n
       /\ \A j \in Segs : j # i => partsLeft'[j] = partsLeft[j] /\ gaps'[j] = gaps[j]
  BY <1>0, <1>1 DEF BoostSegment, TypeOK
<1>15. TypeOK'
  <2>1. pending' \subseteq Futures /\ remaining' \subseteq Segs
    BY <1>1, <1>4, <1>14 DEF Queues, TypeOK
  <2> QED  BY <1>1, <1>6, <1>10, <1>14, <2>1 DEF TypeOK, FutState
<1>16. ASSUME NEW j \in Segs, j # i
       PROVE  Counted(j)' /\ SplitOnce(j)'
  <2>1. PartsKept(j)
    BY <1>6, <1>8, <1>10, <1>14, <1>16, FuturesOf DEF PartsKept
  <2>2. LineKept(j)
    BY <1>1, <1>6, <1>13, <1>14 DEF LineKept
  <2> QED  BY <2>1, <2>2, <1>6, CountedFrame, SplitFrame
<1>17. Counted(i)'
  <2>1. Cardinality(Unread(i)') = n /\ Cardinality(Out(i)') = n
    BY <1>0, <1>12, FirstParts
  <2>2. \A k \in 1..PartsMax : fut'[Part(i, k)] # "claimed"
    BY <1>11
  <2> QED  BY <1>0, <1>14, <2>1, <2>2 DEF Counted
<1>18. SplitOnce(i)'
  <2>1. Boosted(i)'
    BY <1>0, <1>11 DEF Boosted
  <2>2. fut'[Primary(i)] = "none" /\ i \notin remaining'
    BY <1>1, <1>2, <1>13, <1>14 DEF Fresh
  <2>3. pc' \notin After
    BY <1>1 DEF After
  <2> QED  BY <2>1, <2>2, <2>3 DEF SplitOnce
<1>19. \A j \in Segs : Fresh(j)'
  BY <1>6, <1>13, <1>14 DEF BInv, Fresh
<1>20. Complete'
  <2>1. Out(i)' # {}
    BY <1>0, <1>12
  <2>2. ASSUME ~cancelled, NEW j \in Segs
        PROVE  Covered(j)'
    <3>1. Covered(j)
      BY <2>2, <1>1 DEF BInv, Complete, Before
    <3>2. j \in remaining => j \in remaining' \/ (j \notin tailSkipped /\ j \notin partAbort /\ Out(j)' # {})
      BY <1>1, <1>3, <1>14, <2>1
    <3> QED  BY <3>1, <3>2, <1>4, <1>5, <1>6, <1>10, QueueCovered
  <2> QED  BY <2>2, <1>1, <1>6 DEF Complete
<1> QED  BY <1>10, <1>15, <1>16, <1>17, <1>18, <1>19, <1>20 DEF BInv

LEMMA HedgeStuckKeeps ==
  ASSUME BInv, HedgeStuck
  PROVE  BInv'
<1>1. PICK S \in SUBSET Stuck :
        /\ hedged' = hedged \cup S
        /\ pending' = pending \cup {Hedge(i) : i \in S}
        /\ fut' = [f \in Futures |-> IF f \in {Hedge(i) : i \in S} THEN "queued" ELSE fut[f]]
  BY DEF HedgeStuck
<1> DEFINE Q == {Hedge(i) : i \in S}
<1>2. TypeOK /\ S \subseteq Segs /\ pc = "hedge" /\ \A i \in S : i \notin hedged
  BY <1>1 DEF BInv, TypeOK, Stuck, HedgeStuck
<1>3. Q \in SUBSET Futures /\ Queues(Q)
  BY <1>1, <1>2, FuturesOf DEF Queues
<1>4. \A f \in Q : fut[f] = "none"
  BY <1>2 DEF BInv, Fresh
<1>5. /\ pc' = IF segDone = Segs THEN "finally" ELSE "wait"
      /\ UNCHANGED <<adaptive, target, remaining, result, tailBoosted, tailSkipped, partVars, segVars,
                     cancelled, batchAbort, events, reported>>
  BY DEF HedgeStuck
<1>6. \A i \in Segs : Primary(i) \notin Q /\ \A k \in 1..PartsMax : Part(i, k) \notin Q
  BY <1>2, FuturesDiffer, PartsMaxNat
<1>7. \A i \in Segs : Hedge(i) \in Q => i \in S
  BY <1>2, FuturesDiffer, PartsMaxNat
<1> HIDE DEF Q
<1>8. /\ Waited' /\ Ended' /\ OneWinner' /\ NeverHoley' /\ \A i \in Segs : Raced(i)'
      /\ fut' \in [Futures -> FutState]
      /\ \A f \in Futures : fut'[f] = IF f \in Q THEN "queued" ELSE fut[f]
  BY <1>2, <1>3, <1>4, <1>5, QueueFrame DEF Before, segVars
<1>9. TypeOK'
  <2>1. pending' \subseteq Futures /\ hedged' \subseteq Segs
    BY <1>1, <1>2, <1>3 DEF Queues, TypeOK
  <2> QED  BY <1>2, <1>5, <1>8, <2>1 DEF TypeOK, FutState, partVars, segVars
<1>10. ASSUME NEW i \in Segs
       PROVE  Counted(i)' /\ SplitOnce(i)' /\ Fresh(i)'
  <2>1. PartsKept(i)
    BY <1>5, <1>6, <1>8, FuturesOf DEF PartsKept, partVars
  <2>2. fut'[Primary(i)] = fut[Primary(i)]
    BY <1>6, <1>8, FuturesOf
  <2>3. LineKept(i)
    BY <2>2, <1>5 DEF LineKept, After
  <2>4. fut'[Hedge(i)] # "none" => i \in hedged'
    BY <1>1, <1>7, <1>8, FuturesOf DEF BInv, Fresh
  <2>5. Fresh(i)'
    BY <2>2, <2>4, <1>5 DEF BInv, Fresh
  <2> QED  BY <2>1, <2>3, <2>5, <1>5, CountedFrame, SplitFrame
<1>11. Complete'
  <2>1. ASSUME ~cancelled, NEW i \in Segs
        PROVE  Covered(i)'
    <3>1. Covered(i)
      BY <2>1, <1>2 DEF BInv, Complete, Before
    <3> QED  BY <3>1, <1>3, <1>4, <1>5, <1>8, QueueCovered DEF partVars, segVars
  <2>2. pc' \in {"finally", "join", "last"} => segDone' = Segs
    BY <1>5 DEF segVars
  <2> QED  BY <2>1, <2>2, <1>5 DEF Complete
<1> QED  BY <1>8, <1>9, <1>10, <1>11 DEF BInv

LEMMA WaitKeeps ==
  ASSUME BInv, Wait
  PROVE  BInv'
<1> DEFINE back == {f.seg : f \in {g \in Over : fut[g] = "failed"}} \ tailSkipped
<1>1. TypeOK /\ pc = "wait" /\ pc' = "top" /\ pending \subseteq Futures
  BY DEF BInv, TypeOK, Wait
<1>2. /\ remaining' = remaining \cup back /\ tailBoosted' = tailBoosted \ back
      /\ tailSkipped' = tailSkipped \cup back /\ pending' = pending \ Over
      /\ UNCHANGED <<adaptive, target, result, hedged, partVars, segVars, fut, cancelled, batchAbort,
                     events, reported>>
  BY DEF Wait, Requeue
<1>3. \A f \in Over : /\ f \in pending /\ f \in Futures /\ fut[f] \in {"fin", "failed"}
                      /\ fut[f] = "failed" => f \in Parts
  <2>1. ASSUME NEW f \in Over
        PROVE  /\ f \in pending /\ f \in Futures /\ fut[f] \in {"fin", "failed"}
               /\ fut[f] = "failed" => f \in Parts
    <3>1. f \in pending /\ f \in Futures /\ fut[f] \in Finished
      BY <1>1 DEF Over
    <3>2. ~Fatal(f)
      BY DEF Wait
    <3>3. fut[f] # "dropped"
      BY <3>1, <1>1 DEF BInv, Waited, Before
    <3> QED  BY <3>1, <3>2, <3>3 DEF Fatal, Finished
  <2> QED  BY <2>1
<1>4. \A f \in pending : fut[f] \in {"fin", "failed"} => f \in Over
  BY DEF Over, Finished
<1>5. ASSUME NEW i \in back
      PROVE  i \in Segs /\ Boosted(i) /\ i \notin tailSkipped
  <2>1. PICK f \in Over : fut[f] = "failed" /\ i = f.seg
    BY <1>5
  <2>2. f \in Parts /\ f \in Futures
    BY <2>1, <1>3
  <2>3. i \in Segs
    BY <2>1, <2>2, SegOf
  <2>4. PICK k \in 1..PartsMax : f = Part(i, k)
    BY <2>1, <2>2, PartOf
  <2> QED  BY <2>1, <2>3, <2>4, <1>5 DEF BInv, SplitOnce
<1>6. \A k \in 1..PartsMax, i \in Segs :
        Part(i, k) \in pending /\ fut[Part(i, k)] = "failed" /\ i \notin tailSkipped => i \in back
  BY <1>4, FuturesOf
<1> HIDE DEF back
<1>7. back \subseteq Segs
  BY <1>5
<1>8. TypeOK'
  BY <1>1, <1>2, <1>7 DEF TypeOK, partVars, segVars
<1>9. Waited'
  <2>1. \A f \in Futures : fut[f] \in {"queued"} \cup Busy => f \notin Over
    BY <1>3 DEF Busy, Returned
  <2> QED  BY <2>1, <1>1, <1>2 DEF BInv, Waited, Before
<1>10. Ended'
  BY <1>1, <1>2 DEF BInv, Ended, Before, After, Quiet
<1>11. \A i \in Segs : Fresh(i)' /\ LineKept(i)
  BY <1>1, <1>2, <1>5 DEF BInv, Fresh, LineKept, SplitOnce, After
<1>12. Complete'
  <2>1. ASSUME ~cancelled, NEW i \in Segs
        PROVE  Covered(i)'
    <3>1. Covered(i)
      BY <2>1, <1>1 DEF BInv, Complete, Before
    <3>2. CASE i \in segDone \/ i \in remaining \/ i \in back
      BY <3>2, <1>2 DEF Covered, segVars
    <3>3. CASE \E f \in Whole : f \in pending /\ f.seg = i /\ fut[f] # "fin"
      <4>1. PICK f \in Whole : f \in pending /\ f.seg = i /\ fut[f] # "fin"
        BY <3>3
      <4>2. f \notin Over
        BY <4>1, <1>3, WholeIsNoPart
      <4> QED  BY <4>1, <4>2, <1>2 DEF Covered
    <3>4. CASE i \notin tailSkipped /\ i \notin partAbort /\ Out(i) # {} /\ i \notin back
      <4>1. Out(i)' = Out(i)
        BY <1>2 DEF Out
      <4> HIDE DEF Out
      <4> QED  BY <4>1, <3>4, <1>2 DEF Covered, partVars
    <3>5. CASE i \notin tailSkipped /\ \E k \in 1..PartsMax : Part(i, k) \in pending /\ fut[Part(i, k)] \in {"failed", "denied"}
      <4>1. PICK k \in 1..PartsMax : Part(i, k) \in pending /\ fut[Part(i, k)] \in {"failed", "denied"}
        BY <3>5
      <4>2. Part(i, k) \in Over
        BY <4>1 DEF Over, Finished
      <4>3. fut[Part(i, k)] = "failed"
        BY <4>1, <4>2, <1>3
      <4> QED  BY <4>1, <4>3, <3>5, <3>2, <1>6
    <3> HIDE DEF Out
    <3> QED  BY <3>1, <3>2, <3>3, <3>4, <3>5 DEF Covered
  <2> QED  BY <2>1, <1>1, <1>2 DEF Complete
<1> QED  BY <1>1, <1>2, <1>8, <1>9, <1>10, <1>11, <1>12, StillKeeps

\* The queue of the pool is dropped.
LEMMA DropFrame ==
  ASSUME BInv, fut' = Dropped, UNCHANGED <<segDone, file, unplaced, events, reported, gaps, partsLeft>>,
         UNCHANGED <<remaining, pending, hedged, tailSkipped>>,
         partAbort \subseteq partAbort', pc' \in {"finally", "join", "last", "end"},
         cancelled => cancelled',
         \/ cancelled' /\ partAbort' = partAbort /\ pc' = "finally"
         \/ partAbort' = {i \in Segs : Boosted(i)}
  PROVE  /\ Waited' /\ OneWinner' /\ NeverHoley' /\ fut' \in [Futures -> FutState]
         /\ \A f \in Futures : fut'[f] # "queued"
         /\ \A i \in Segs : Counted(i)' /\ SplitOnce(i)' /\ Fresh(i)' /\ Raced(i)'
<1>1. fut \in [Futures -> FutState] /\ "dropped" \in FutState
  BY DEF BInv, TypeOK, FutState, Finished
<1> HIDE DEF FutState
<1>2. fut' \in [Futures -> FutState] /\ \A f \in Futures : fut'[f] = IF fut[f] = "queued" THEN "dropped" ELSE fut[f]
  BY <1>1 DEF Dropped
<1>3. \A f \in Futures : fut'[f] # "queued" /\ (fut'[f] = "none" <=> fut[f] = "none")
  BY <1>2
<1>4. ClaimsKept
  BY <1>2 DEF ClaimsKept
<1>5. Waited'
  BY <1>3 DEF BInv, TypeOK, Waited, Before
<1>6. OneWinner' /\ NeverHoley' /\ \A i \in Segs : Raced(i)'
  BY <1>4, ClaimsFrame
<1>7. ASSUME NEW i \in Segs
      PROVE  Counted(i)' /\ SplitOnce(i)' /\ Fresh(i)'
  <2>1. \A k \in 1..PartsMax : Part(i, k) \in Futures
    BY FuturesOf
  <2>2. Boosted(i)' <=> Boosted(i)
    BY <1>3, <2>1, PartsMaxNat DEF Boosted
  <2>3. Counted(i) /\ SplitOnce(i) /\ Fresh(i) /\ gaps[i] \in Nat /\ partsLeft[i] \in Nat
    BY PartsMaxNat DEF BInv, TypeOK
  <2>4. Fresh(i)'
    BY <1>3, <2>3, FuturesOf DEF Fresh
  <2>5. SplitOnce(i)'
    <3>1. \A k \in 1..PartsMax : fut'[Part(i, k)] # "none" => Boosted(i)'
      BY <1>3, <2>1, <2>2, <2>3 DEF SplitOnce
    <3>2. ~Boosted(i) => i \notin partAbort'
      BY <2>3 DEF SplitOnce
    <3>3. Boosted(i) /\ pc' \in After => i \in partAbort'
      BY DEF After
    <3>4. fut'[Primary(i)] = "none" <=> fut[Primary(i)] = "none"
      BY <1>3, FuturesOf
    <3> QED  BY <3>1, <3>2, <3>3, <3>4, <2>2, <2>3 DEF SplitOnce
  <2>6. Unread(i)' \subseteq Unread(i) /\ Out(i)' \subseteq Out(i)
    BY <1>2, <2>1 DEF Unread, Out, Returned
  <2>7. /\ Cardinality(Unread(i)') <= Cardinality(Unread(i)) /\ Cardinality(Out(i)') <= Cardinality(Out(i))
        /\ Cardinality(Unread(i)') \in Nat /\ Cardinality(Unread(i)) \in Nat
        /\ Cardinality(Out(i)') \in Nat /\ Cardinality(Out(i)) \in Nat
    BY <2>6, FewerIsLess, FiniteParts, CountSets
  <2>8. /\ gaps'[i] >= Cardinality(Unread(i)') /\ partsLeft'[i] >= Cardinality(Out(i)')
        /\ \A k \in 1..PartsMax : fut'[Part(i, k)] = "claimed" => gaps'[i] = 0
    BY <1>2, <2>1, <2>3, <2>7 DEF Counted
  <2>9. ~cancelled' /\ i \notin partAbort' =>
          gaps'[i] = Cardinality(Unread(i)') /\ partsLeft'[i] = Cardinality(Out(i)')
    <3>1. ASSUME ~cancelled', i \notin partAbort'
          PROVE  Unread(i)' = {} /\ Out(i)' = {} /\ gaps[i] = 0 /\ partsLeft[i] = 0
      <4>1. ~Boosted(i)
        BY <3>1
      <4>2. \A k \in 1..PartsMax : fut'[Part(i, k)] = "none"
        BY <4>1, <1>3, <2>1, <2>3 DEF SplitOnce
      <4> QED  BY <4>1, <4>2, <2>3 DEF SplitOnce, Unread, Out, Returned
    <3> QED  BY <3>1, NoneIsZero, CountSets
  <2> QED  BY <2>4, <2>5, <2>8, <2>9 DEF Counted
<1> QED  BY <1>2, <1>3, <1>5, <1>6, <1>7

LEMMA StopKeeps ==
  ASSUME BInv, pc \in Before \ {"start"}, pc' = "finally", fut' = Dropped, cancelled' = TRUE,
         result' \in {"failed", "interrupted"},
         UNCHANGED <<adaptive, target, remaining, pending, tailVars, partVars, segVars, batchAbort, events, reported>>
  PROVE  BInv'
<1>1. UNCHANGED <<segDone, file, unplaced, gaps, partsLeft, partAbort, hedged, tailSkipped>>
  BY DEF tailVars, partVars, segVars
<1>2. /\ Waited' /\ OneWinner' /\ NeverHoley' /\ fut' \in [Futures -> FutState]
      /\ \A i \in Segs : Counted(i)' /\ SplitOnce(i)' /\ Fresh(i)' /\ Raced(i)'
  BY <1>1, DropFrame
<1>3. TypeOK'
  BY <1>2 DEF BInv, TypeOK, FutState, tailVars, partVars, segVars
<1>4. Ended' /\ Complete'
  BY DEF Ended, Complete, Before, After
<1> QED  BY <1>2, <1>3, <1>4 DEF BInv

LEMMA WaitFailsKeeps ==
  ASSUME BInv, WaitFails
  PROVE  BInv'
BY StopKeeps DEF WaitFails, Before

LEMMA KeyboardInterruptKeeps ==
  ASSUME BInv, KeyboardInterrupt
  PROVE  BInv'
BY StopKeeps DEF KeyboardInterrupt, Before

LEMMA FinallyKeeps ==
  ASSUME BInv, Finally
  PROVE  BInv'
<1>1. /\ pc = "finally" /\ batchAbort' = TRUE /\ fut' = Dropped /\ pc' = AfterFinally
      /\ partAbort' = {i \in Segs : Boosted(i)}
      /\ UNCHANGED <<adaptive, target, remaining, pending, result, tailVars, partsLeft, gaps, segVars,
                     cancelled, events, reported>>
  BY DEF Finally, Boosted
<1>2. partAbort \subseteq partAbort' /\ pc' \in {"join", "last", "end"}
  BY <1>1 DEF BInv, TypeOK, SplitOnce, AfterFinally
<1>3. /\ Waited' /\ OneWinner' /\ NeverHoley' /\ fut' \in [Futures -> FutState]
      /\ \A f \in Futures : fut'[f] # "queued"
      /\ \A i \in Segs : Counted(i)' /\ SplitOnce(i)' /\ Fresh(i)' /\ Raced(i)'
  BY <1>1, <1>2, DropFrame DEF tailVars, segVars
<1>4. TypeOK'
  <2>1. partAbort' \subseteq Segs
    BY <1>1
  <2> QED  BY <1>1, <1>2, <1>3, <2>1 DEF BInv, TypeOK, FutState, tailVars, segVars
<1>5. Ended'
  <2>1. result # "ok" /\ (pc' # "end" => result = "none") /\ (pc' = "last" => cancelled)
    BY <1>1 DEF BInv, Ended, AfterFinally
  <2>2. pc' \notin Before
    BY <1>2 DEF Before
  <2> QED  BY <2>1, <2>2, <1>1, <1>2, <1>3 DEF Ended
<1>6. Complete'
  <2>1. ~cancelled /\ result = "none" => segDone = Segs
    BY <1>1 DEF BInv, Complete
  <2>2. pc' \notin Before
    BY <1>2 DEF Before
  <2> QED  BY <2>1, <2>2, <1>1 DEF Complete, segVars
<1> QED  BY <1>3, <1>4, <1>5, <1>6 DEF BInv

LEMMA JoinedKeeps ==
  ASSUME BInv, Joined
  PROVE  BInv'
<1>1. /\ pc = "join" /\ pc' = "last" /\ Quiet
      /\ UNCHANGED <<adaptive, target, remaining, pending, result, tailVars, partVars, segVars, fut,
                     cancelled, batchAbort, events, reported>>
  BY DEF Joined, Quiet
<1>2. TypeOK'
  BY <1>1 DEF BInv, TypeOK, tailVars, partVars, segVars
<1>3. Waited' /\ Complete'
  BY <1>1 DEF BInv, Waited, Complete, Before, segVars
<1>4. Ended'
  BY <1>1 DEF BInv, Ended, Quiet, Before, After
<1>5. \A i \in Segs : Fresh(i)' /\ LineKept(i)
  BY <1>1 DEF BInv, Fresh, LineKept, After, tailVars
<1> QED  BY <1>1, <1>2, <1>3, <1>4, <1>5, StillKeeps

LEMMA ReturnKeeps ==
  ASSUME BInv, Return
  PROVE  BInv'
<1>1. /\ pc = "last" /\ pc' = "end" /\ result' = IF cancelled THEN "cancelled" ELSE "ok"
      /\ events' = {} /\ reported' = reported \cup events
      /\ UNCHANGED <<adaptive, target, remaining, pending, tailVars, partVars, segVars, fut, cancelled, batchAbort>>
  BY DEF Return, Drain
<1>2. TypeOK'
  BY <1>1 DEF BInv, TypeOK, tailVars, partVars, segVars
<1>3. Waited' /\ Complete'
  BY <1>1 DEF BInv, Waited, Complete, Before
<1>4. Ended'
  <2>1. result = "none" /\ (~cancelled => Quiet /\ segDone = Segs) /\ \A f \in Futures : fut[f] # "queued"
    BY <1>1 DEF BInv, Ended, Complete, After
  <2> QED  BY <1>1, <2>1 DEF Ended, Quiet, Before, segVars
<1>5. \A i \in Segs : Fresh(i)' /\ LineKept(i)
  BY <1>1 DEF BInv, Fresh, LineKept, After, tailVars
<1>6. events' \cup reported' = events \cup reported
  BY <1>1
<1> QED  BY <1>1, <1>2, <1>3, <1>4, <1>5, <1>6, StillKeeps

LEMMA FlagKeeps ==
  ASSUME BInv, OtherTrackFails \/ NextTrack
  PROVE  BInv'
<1>1. /\ (pc # "end" /\ cancelled' = TRUE) \/ (pc = "end" /\ cancelled' = FALSE)
      /\ UNCHANGED <<loopVars, tailVars, partVars, segVars, fut, batchAbort, events, reported>>
  BY DEF OtherTrackFails, NextTrack
<1>2. TypeOK'
  <2>1. {timed', cancelled', batchAbort'} \subseteq BOOLEAN
    BY <1>1 DEF BInv, TypeOK, segVars
  <2> QED  BY <1>1, <2>1 DEF BInv, TypeOK, loopVars, tailVars, partVars, segVars
<1>3. Waited'
  BY <1>1 DEF BInv, Waited, loopVars
<1>4. Complete'
  BY <1>1 DEF BInv, Complete, Before, loopVars
<1>5. Ended'
  BY <1>1 DEF BInv, Ended, Quiet, loopVars, segVars
<1>6. \A i \in Segs : Fresh(i)' /\ LineKept(i)
  BY <1>1 DEF BInv, Fresh, LineKept, loopVars, tailVars
<1> QED  BY <1>1, <1>2, <1>3, <1>4, <1>5, <1>6, StillKeeps

-----------------------------------------------------------------------------
(* What holds in every state.                                              *)

LEMMA InitBInv ==
  ASSUME Init
  PROVE  BInv
<1>1. TypeOK
  <2>1. fut \in [Futures -> {"none", "queued"} \cup Busy \cup Finished]
    BY DEF Init
  <2>2. 0 \in 0..PartsMax
    BY PartsMaxNat
  <2>3. file \in [Segs -> {"none", "whole", "holey"}]
    BY DEF Init
  <2> QED  BY <2>1, <2>2, <2>3 DEF Init, TypeOK
<1>2. \A f \in Futures : fut[f] = "none"
  BY DEF Init
<1>3. Waited
  BY <1>2 DEF Init, Waited, Busy, Returned
<1>4. Complete
  <2>1. \A i \in Segs : Covered(i)
    BY DEF Init, Covered
  <2> QED  BY <2>1 DEF Init, Complete
<1>5. Ended
  BY DEF Init, Ended, After
<1>6. OneWinner
  BY <1>2 DEF OneWinner
<1>7. NeverHoley
  BY DEF Init, NeverHoley
<1>8. ASSUME NEW i \in Segs
      PROVE  Counted(i) /\ SplitOnce(i) /\ Fresh(i) /\ Raced(i)
  <2>1. \A k \in 1..PartsMax : fut[Part(i, k)] = "none"
    BY <1>2, FuturesOf
  <2>2. Unread(i) = {} /\ Out(i) = {}
    BY <2>1 DEF Unread, Out, Returned
  <2>3. Counted(i)
    <3>1. Cardinality(Unread(i)) = 0 /\ Cardinality(Out(i)) = 0
      BY <2>2, NoneIsZero, CountSets
    <3>2. gaps[i] = 0 /\ partsLeft[i] = 0
      BY DEF Init
    <3> QED  BY <3>1, <3>2 DEF Counted
  <2>4. SplitOnce(i)
    <3>1. ~Boosted(i)
      BY <2>1, PartsMaxNat DEF Boosted
    <3> QED  BY <3>1, <2>1 DEF Init, SplitOnce
  <2>5. Fresh(i)
    BY <1>2, FuturesOf DEF Fresh
  <2>6. Raced(i)
    BY <1>2 DEF Init, Raced, Claimed
  <2> QED  BY <2>3, <2>4, <2>5, <2>6
<1> QED  BY <1>1, <1>3, <1>4, <1>5, <1>6, <1>7, <1>8 DEF BInv

LEMMA LoopKeeps ==
  ASSUME BInv, Loop
  PROVE  BInv'
BY BeginKeeps, TurnKeeps, LoopEndsKeeps, BoostSegmentKeeps, SkipSegmentKeeps, BoostEndsKeeps, FeedKeeps,
   HedgeStuckKeeps, WaitKeeps, WaitFailsKeeps, FinallyKeeps, JoinedKeeps, ReturnKeeps DEF Loop

LEMMA StutterKeeps ==
  ASSUME BInv, UNCHANGED vars
  PROVE  BInv'
<1>1. UNCHANGED <<adaptive, pc, target, remaining, pending, result, hedged, tailBoosted, tailSkipped, partVars,
                  segVars, fut, cancelled, batchAbort, events, reported>>
  BY DEF vars, loopVars, tailVars
<1>2. TypeOK' /\ Waited' /\ Ended' /\ \A i \in Segs : Fresh(i)' /\ LineKept(i)
  BY <1>1 DEF BInv, TypeOK, Waited, Ended, Quiet, Fresh, LineKept, partVars, segVars
<1>3. Complete'
  <2>1. ASSUME pc \in Before, ~cancelled, NEW i \in Segs
        PROVE  Covered(i)'
    <3>1. Covered(i)
      BY <2>1 DEF BInv, Complete
    <3> QED  BY <3>1, <1>1, CoveredStill
  <2> QED  BY <2>1, <1>1 DEF BInv, Complete, segVars
<1> QED  BY <1>1, <1>2, <1>3, StillKeeps

\* The invariant holds in every state: the loop waits for whatever runs, every
\* segment is done or is going to be, and the counters of a split segment say
\* how many of its parts are out and how many bytes are missing.
THEOREM Invariance == Spec => []BInv
<1>1. Init => BInv
  BY InitBInv
<1>2. BInv /\ [Next]_vars => BInv'
  BY LoopKeeps, KeyboardInterruptKeeps, WorkerStepKeeps, FlagKeeps, StutterKeeps
  DEF Next, Workers, Unfinished
<1> QED  BY <1>1, <1>2, PTL DEF Spec

\* The state has its types.
THEOREM TypeCorrect == Spec => []TypeOK
<1>1. BInv => TypeOK
  BY DEF BInv
<1> QED  BY <1>1, Invariance, PTL

\* However a primary, a hedge and the parts of a segment race, one of them
\* places it, and reports it once (seg_lock and seg_done in download_worker and
\* tail_part_worker).
THEOREM OneRacerWins == Spec => []OneWinner
<1>1. BInv => OneWinner
  BY DEF BInv
<1> QED  BY <1>1, Invariance, PTL

\* No segment is put together from parts of which one was stopped: not when the
\* flag that stopped it has been cleared since, and not when its siblings fail
\* (part_abort and the countdown in tail_part_worker).
THEOREM WholeSegmentsOnly == Spec => []NeverHoley
<1>1. BInv => NeverHoley
  BY DEF BInv
<1> QED  BY <1>1, Invariance, PTL

\* A batch that returns has every segment on disk and has reported it, whatever
\* was hedged, split and put back in line (the drain loop of requests()).
THEOREM NoneIsMissing == Spec => []OkMeansAll
<1>1. BInv => OkMeansAll
  <2>1. ASSUME BInv, result = "ok", NEW i \in Segs \ unplaced
        PROVE  file[i] = "whole" /\ i \in reported
    <3>1. Quiet /\ i \in segDone /\ events = {} /\ Raced(i)
      BY <2>1 DEF BInv, Ended
    <3>2. ~Claimed(i)
      BY <3>1 DEF Quiet, Claimed, Busy
    <3> QED  BY <3>1, <3>2 DEF Raced
  <2> QED  BY <2>1 DEF OkMeansAll
<1> QED  BY <1>1, Invariance, PTL

\* ... and has no worker left (the shutdown in the finally of requests()).
THEOREM QuietReturn == Spec => []OkMeansQuiet
<1>1. BInv => OkMeansQuiet
  BY DEF BInv, Ended, Quiet, OkMeansQuiet
<1> QED  BY <1>1, Invariance, PTL

-----------------------------------------------------------------------------
(* Nothing is submitted twice.                                             *)

\* How many steps a future is from its end, at most.
Rank(s) == CASE s = "none" -> 5
             [] s = "queued" -> 4
             [] s = "reading" -> 3
             [] s \in Returned -> 2
             [] s = "claimed" -> 1
             [] s \in Finished -> 0

\* A step never takes a future back, and no other future than its own along.
Onward == \A f \in Futures : Rank(fut'[f]) <= Rank(fut[f])

LEMMA RankTyped == ASSUME NEW s \in FutState PROVE Rank(s) \in 0..5
BY DEF Rank, FutState, Busy, Returned, Finished

LEMMA RanksTyped == ASSUME BInv, NEW f \in Futures PROVE fut[f] \in FutState /\ Rank(fut[f]) \in 0..5
<1>1. fut[f] \in FutState
  BY DEF BInv, TypeOK, FutState
<1> QED  BY <1>1, RankTyped

\* The loop touches no future, or submits some that it has not submitted before,
\* or drops what is in the queue.
LEMMA StillOnward == ASSUME BInv, UNCHANGED fut PROVE Onward
BY RanksTyped DEF Onward

LEMMA QueueOnward ==
  ASSUME BInv, NEW New, \A f \in New : fut[f] = "none",
         fut' = [f \in Futures |-> IF f \in New THEN "queued" ELSE fut[f]]
  PROVE  Onward
<1> SUFFICES ASSUME NEW f \in Futures PROVE Rank(fut'[f]) <= Rank(fut[f])
  BY DEF Onward
<1>1. CASE f \in New
  BY <1>1 DEF Rank, Returned, Finished
<1>2. CASE f \notin New
  BY <1>2, RanksTyped
<1> QED  BY <1>1, <1>2

LEMMA DropOnward == ASSUME BInv, fut' = Dropped PROVE Onward
<1> SUFFICES ASSUME NEW f \in Futures PROVE Rank(fut'[f]) <= Rank(fut[f])
  BY DEF Onward
<1>1. CASE fut[f] = "queued"
  BY <1>1 DEF Dropped, Rank, Returned, Finished
<1>2. CASE fut[f] # "queued"
  BY <1>2, RanksTyped DEF Dropped
<1> QED  BY <1>1, <1>2

LEMMA SubmitOnward == ASSUME BInv, NEW S, S \subseteq remaining, Submit(S) PROVE Onward
<1>1. ASSUME NEW f \in {Primary(i) : i \in S} PROVE fut[f] = "none"
  BY DEF BInv, TypeOK, Fresh
<1>2. fut' = [f \in Futures |-> IF f \in {Primary(i) : i \in S} THEN "queued" ELSE fut[f]]
  BY DEF Submit
<1> QED  BY <1>1, <1>2, QueueOnward

LEMMA BoostOnward ==
  ASSUME BInv, NEW i \in Segs, NEW n \in 2..PartsMax, BoostSegment(i, n) PROVE Onward
<1>1. i \in remaining /\ i \notin tailSkipped
  BY DEF BoostSegment, Candidates
<1>2. ~Boosted(i) /\ \A k \in 1..PartsMax : fut[Part(i, k)] # "none" => Boosted(i)
  BY <1>1 DEF BInv, SplitOnce
<1>3. ASSUME NEW f \in {Part(i, k) : k \in 1..n} PROVE fut[f] = "none"
  BY <1>2, BatchAssumption
<1>4. fut' = [f \in Futures |-> IF f \in {Part(i, k) : k \in 1..n} THEN "queued" ELSE fut[f]]
  BY DEF BoostSegment
<1> QED  BY <1>3, <1>4, QueueOnward

LEMMA HedgeOnward == ASSUME BInv, HedgeStuck PROVE Onward
<1>1. PICK S \in SUBSET Stuck :
        fut' = [f \in Futures |-> IF f \in {Hedge(i) : i \in S} THEN "queued" ELSE fut[f]]
  BY DEF HedgeStuck
<1>2. ASSUME NEW f \in {Hedge(i) : i \in S} PROVE fut[f] = "none"
  BY DEF BInv, TypeOK, Fresh, Stuck
<1> QED  BY <1>1, <1>2, QueueOnward

LEMMA LoopOnward == ASSUME BInv, Loop \/ KeyboardInterrupt PROVE Onward
<1>1. CASE Begin \/ Feed
  <2>1. (\E S : S \subseteq remaining /\ Submit(S)) \/ UNCHANGED fut
    BY <1>1 DEF Begin, Feed, Picks
  <2> QED  BY <2>1, SubmitOnward, StillOnward
<1>2. CASE \E i \in Segs, n \in 2..PartsMax : BoostSegment(i, n)
  BY <1>2, BoostOnward
<1>3. CASE HedgeStuck
  BY <1>3, HedgeOnward
<1>4. CASE WaitFails \/ Finally \/ KeyboardInterrupt
  BY <1>4, DropOnward DEF WaitFails, Finally, KeyboardInterrupt
<1>5. CASE Turn \/ LoopEnds \/ (\E i \in Segs : SkipSegment(i)) \/ BoostEnds \/ Wait \/ Joined \/ Return
  BY <1>5, StillOnward DEF Turn, LoopEnds, SkipSegment, BoostEnds, Wait, Joined, Return
<1> QED  BY <1>1, <1>2, <1>3, <1>4, <1>5 DEF Loop

\* A worker takes its own future on.
LEMMA WorkerMoves ==
  ASSUME NEW f \in Futures, WorkerStep(f)
  PROVE  \E s \in FutState : fut' = [fut EXCEPT ![f] = s] /\ Rank(s) < Rank(fut[f])
<1> DEFINE To(S) == \E s \in S : fut' = [fut EXCEPT ![f] = s]
<1>1. ASSUME NEW S, S \subseteq FutState, To(S), \A s \in S : Rank(s) < Rank(fut[f])
      PROVE  \E s \in FutState : fut' = [fut EXCEPT ![f] = s] /\ Rank(s) < Rank(fut[f])
  BY <1>1
<1>2. CASE fut[f] = "queued" /\ (FindFile(f) \/ BeginReading(f))
  <2>1. To({"fin", "claimed", "reading"})
    BY <1>2 DEF FindFile, BeginReading
  <2>2. \A s \in {"fin", "claimed", "reading"} : Rank(s) < Rank("queued")
    BY DEF Rank, Returned, Finished
  <2>3. {"fin", "claimed", "reading"} \subseteq FutState
    BY DEF FutState, Busy, Finished
  <2> HIDE DEF To
  <2> QED  BY <1>1, <1>2, <2>1, <2>2, <2>3
<1>3. CASE fut[f] = "reading" /\ (ReadAll(f) \/ ReadStops(f) \/ ReadFails(f))
  <2> DEFINE S == {"got", "short", "fin", "broken", "refused", "failed", "denied"}
  <2>1. To(S)
    <3>1. CASE ReadAll(f)
      BY <3>1 DEF ReadAll
    <3>2. CASE ReadStops(f)
      BY <3>2 DEF ReadStops
    <3>3. CASE ReadFails(f)
      BY <3>3, Zenon DEF ReadFails
    <3> QED  BY <1>3, <3>1, <3>2, <3>3
  <2>2. \A s \in S : Rank(s) < Rank("reading")
    BY DEF Rank, Returned, Finished
  <2>3. S \subseteq FutState
    BY DEF FutState, Busy, Returned, Finished
  <2> HIDE DEF To, S
  <2> QED  BY <1>1, <1>3, <2>1, <2>2, <2>3
<1>4. CASE fut[f] \in Returned /\ (Claim(f) \/ PartReturns(f))
  <2> DEFINE S == {"fin", "claimed", "failed", "denied"}
  <2>1. To(S)
    <3>1. CASE Claim(f)
      BY <3>1 DEF Claim
    <3>2. CASE PartReturns(f)
      <4> DEFINE i      == f.seg
                 failed == fut[f] \in {"broken", "refused"}
                 wins   == ~cancelled /\ ~failed /\ i \notin partAbort /\ partsLeft[i] = 1 /\ i \notin segDone
                 r      == IF wins THEN "claimed" ELSE IF cancelled \/ ~failed THEN "fin"
                           ELSE IF fut[f] = "broken" THEN "failed" ELSE "denied"
      <4>1. fut' = [fut EXCEPT ![f] = r]
        BY <3>2 DEF PartReturns
      <4>2. r \in S
        OBVIOUS
      <4> HIDE DEF r, S
      <4> QED  BY <4>1, <4>2
    <3> QED  BY <1>4, <3>1, <3>2
  <2>2. \A s \in S : Rank(s) < Rank(fut[f])
    BY <1>4 DEF Rank, Returned, Finished
  <2>3. S \subseteq FutState
    BY DEF FutState, Busy, Finished
  <2> HIDE DEF To, S
  <2> QED  BY <1>1, <2>1, <2>2, <2>3
<1>5. CASE fut[f] = "claimed" /\ (Deliver(f) \/ DeliverFails(f))
  <2>1. To({"fin", "denied"})
    BY <1>5 DEF Deliver, DeliverFails
  <2>2. \A s \in {"fin", "denied"} : Rank(s) < Rank("claimed")
    BY DEF Rank, Returned, Finished
  <2>3. {"fin", "denied"} \subseteq FutState
    BY DEF FutState, Finished
  <2> HIDE DEF To
  <2> QED  BY <1>1, <1>5, <2>1, <2>2, <2>3
<1> QED
  BY <1>2, <1>3, <1>4, <1>5
  DEF WorkerStep, FindFile, BeginReading, ReadAll, ReadStops, ReadFails, Claim, PartReturns, Deliver,
      DeliverFails, Returned

LEMMA WorkerOnward ==
  ASSUME BInv, NEW f \in Futures, WorkerStep(f)
  PROVE  Onward /\ Rank(fut'[f]) < Rank(fut[f])
<1>1. PICK s \in FutState : fut' = [fut EXCEPT ![f] = s] /\ Rank(s) < Rank(fut[f])
  BY WorkerMoves
<1>2. fut \in [Futures -> FutState] /\ fut'[f] = s /\ \A g \in Futures : g # f => fut'[g] = fut[g]
  BY <1>1 DEF BInv, TypeOK, FutState
<1>3. Rank(s) \in 0..5 /\ \A g \in Futures : Rank(fut[g]) \in 0..5
  BY RankTyped, RanksTyped
<1> QED  BY <1>1, <1>2, <1>3 DEF Onward

\* No request, no hedge and no part of a segment is submitted twice, whatever is
\* hedged, split and put back in line (remaining, hedged, tail_boosted and
\* tail_skipped in requests()); and what a thread of the pool does to one takes it
\* nearer to its end, so that a batch has work for its threads only so long.
THEOREM NoneRunsTwice ==
  Spec => [][Onward /\ \A f \in Futures : WorkerStep(f) => Rank(fut'[f]) < Rank(fut[f])]_vars
<1>1. ASSUME BInv, Next
      PROVE  Onward /\ \A f \in Futures : WorkerStep(f) => Rank(fut'[f]) < Rank(fut[f])
  <2>1. Onward
    BY <1>1, LoopOnward, WorkerOnward, StillOnward
    DEF Next, Workers, Unfinished, OtherTrackFails, NextTrack
  <2> QED  BY <1>1, <2>1, WorkerOnward
<1> QED  BY <1>1, Invariance, PTL DEF Spec
=============================================================================
