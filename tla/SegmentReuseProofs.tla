-------------------------- MODULE SegmentReuseProofs --------------------------
(***************************************************************************)
(* A track never takes a segment that is not proved to be its own, and a   *)
(* retry takes all that the run before it left: for any number of          *)
(* processes, segments and segmentations.                                  *)
(*                                                                         *)
(* A directory and its sidecar lie at one place, except between the two    *)
(* renames of one run.  The invariant follows the pair: Restored and       *)
(* Stashed say where its halves are then, and OneMover that no other run   *)
(* is between its own two renames.                                         *)
(***************************************************************************)
EXTENDS SegmentReuse, TLAPS

Moving == {"restored", "stashing"}

\* A sidecar proves the directory that belongs to it.
Proves(s, d) ==
  s # Nothing /\ d # Nothing => \A i \in Segs : d[i] \in {Nothing, [of |-> s, form |-> "raw"]}

\* A segment as run r itself fetches it.
Own(r) == [of |-> run[r].digest, form |-> IF run[r].mode = "in_place" THEN "rewritten" ELSE "raw"]

OneMover == \A q, r \in Runs : run[q].at \in Moving /\ run[r].at \in Moving => q = r

\* The directory has come, its sidecar is still in the stash.
Restored ==
  \A r \in Runs : run[r].at = "restored" => dir[Stash] = Nothing /\ Proves(side[Stash], dir[r])

\* The directory has gone, its sidecar is still here.
Stashed ==
  \A r \in Runs : run[r].at = "stashing" =>
    dir[Stash] # Nothing /\ side[Stash] = Nothing /\ Proves(side[r], dir[Stash])

\* The sidecar in the stash is never alone, but when its directory has just gone.
NoStraySidecar ==
  side[Stash] # Nothing /\ dir[Stash] = Nothing => \E r \in Runs : run[r].at = "restored"

StashProved ==
  Proves(side[Stash], dir[Stash]) /\ OneMover /\ Restored /\ Stashed /\ NoStraySidecar

\* What a run that loads has, in its directory and in its output.
Loads(r) ==
  run[r].at \in {"loading", "merging"} =>
    /\ \A i \in Segs : run[r].out[i] \in {Nothing, Own(r)}
    /\ run[r].at = "loading" \/ run[r].mode # "mangle" =>
         \A i \in Segs : dir[r][i] \in {Nothing, Own(r)}
    /\ side[r] \in {Nothing, run[r].digest}
    /\ run[r].mode = "in_place" => side[r] = Nothing

\* All that is in a task directory is proved, and so is what has come out of it.
RunProved(r) ==
  /\ Proves(side[r], dir[r])
  /\ Loads(r)
  /\ run[r].at = "done" => \A i \in Segs : run[r].out[i] = Own(r)

Follows == StashProved /\ \A r \in Runs : RunProved(r)

\* The types, of one run.
Typed(r) ==
  /\ run[r] \in Run /\ dir[r] \in Dir \cup {Nothing} /\ side[r] \in Digests \cup {Nothing}
  /\ run[r].at \in {"loading", "merging"} => dir[r] # Nothing /\ run[r].digest # Nothing
  /\ run[r].at \in {"done", "failed", "dead"} => dir[r] = Nothing /\ side[r] = Nothing

\* What a run has before it loads, and on its way out.
Has(r) ==
  /\ run[r].at \in {"new", "restoring"} => dir[r] = Nothing /\ side[r] = Nothing
  /\ run[r].at = "restored" => dir[r] # Nothing /\ side[r] = Nothing
  /\ run[r].at = "stashing" => dir[r] = Nothing
  /\ run[r].at \in {"new", "restoring", "restored", "ready"} => run[r].out = Empty
  /\ run[r].at = "loading" /\ run[r].mode # "rolling" => run[r].out = Empty

Placed == TypeOK /\ \A r \in Runs : Has(r)

RInv == Placed /\ (seen = {} => Follows)

-----------------------------------------------------------------------------
\* What was left, as directory d with sidecar s holds it.
Holds(d, s) == d # Nothing /\ s = left.of /\ left.segs \subseteq Present(d)

\* At most one run may take over what was left, and all of it is where that run
\* will look.
TakenOver ==
  left # Nothing =>
    /\ \A q, r \in Runs : Alive(q) /\ Alive(r) => q = r
    /\ (\A r \in Runs : run[r].at \notin {"restored", "ready", "loading", "merging", "stashing"})
         => Holds(dir[Stash], side[Stash])
    /\ \A r \in Runs :
         /\ run[r].at = "restored" => Holds(dir[r], side[Stash])
         /\ run[r].at = "ready" => Holds(dir[r], side[r])
         /\ run[r].at = "stashing" => Holds(dir[Stash], side[r])

-----------------------------------------------------------------------------
(* One run at a time.                                                      *)

LEMMA PlacesDiffer == Stash \in Places /\ \A r \in Runs : r # Stash /\ r \in Places
  BY ReuseAssumption DEF Places

LEMMA NothingIsNone ==
  /\ Nothing \notin Digests /\ Nothing \notin Content /\ Nothing \notin Dir /\ Nothing \notin Legacy
  /\ Empty \in Dir /\ Empty # Nothing
<1>1. Nothing \notin Digests /\ Nothing \notin Content /\ Nothing \notin Dir /\ Nothing \notin Legacy
  BY NothingAssumption
<1>2. Empty \in Dir  BY DEF Empty, Dir
<1> QED  BY <1>1, <1>2

\* The state of a run that goes on, and of one that ends.
LEMMA GoesOn ==
  ASSUME TypeOK, NEW r \in Runs, NEW to, Go(r, to)
  PROVE  run'[r] = [at |-> to, mode |-> run[r].mode, digest |-> run[r].digest, out |-> run[r].out]
<1>1. run \in [Runs -> Run]  BY DEF TypeOK
<1> QED  BY <1>1 DEF Go, Run

LEMMA Ends ==
  ASSUME TypeOK, NEW r \in Runs, NEW as, End(r, as)
  PROVE  run'[r] = [at |-> as, mode |-> run[r].mode, digest |-> Nothing, out |-> Empty]
<1>1. run \in [Runs -> Run]  BY DEF TypeOK
<1> QED  BY <1>1 DEF End, Run

LEMMA GoesTo ==
  ASSUME TypeOK, NEW r \in Runs, NEW to, Go(r, to) \/ End(r, to)
  PROVE  run'[r].at = to
<1>1. CASE Go(r, to)
  <2>1. run'[r] = [at |-> to, mode |-> run[r].mode, digest |-> run[r].digest, out |-> run[r].out]
    BY <1>1, GoesOn
  <2> QED  BY <2>1
<1>2. CASE End(r, to)
  <2>1. run'[r] = [at |-> to, mode |-> run[r].mode, digest |-> Nothing, out |-> Empty]
    BY <1>2, Ends
  <2> QED  BY <2>1
<1> QED  BY <1>1, <1>2

\* A run touches its own state, its own place and the stash.
Touched(r) ==
  /\ run' = [q \in Runs |-> run'[q]]
  /\ dir' = [p \in Places |-> dir'[p]]
  /\ side' = [p \in Places |-> side'[p]]
  /\ \A q \in Runs \ {r} : run'[q] = run[q] /\ dir'[q] = dir[q] /\ side'[q] = side[q]

LEMMA Frame ==
  ASSUME TypeOK, NEW r \in Runs, download(r)
  PROVE  Touched(r)
<1> USE PlacesDiffer DEF TypeOK, Go, End, Gone, Touched
<1>1. CASE Start(r)  BY <1>1 DEF Start
<1>2. CASE RestoreDir(r) \/ NothingToRestore(r) \/ RestoreSidecar(r)
  BY <1>2 DEF RestoreDir, NothingToRestore, RestoreSidecar
<1>3. CASE Prove(r)  BY <1>3 DEF Prove
<1>4. CASE \E i \in Segs : Fetch(r, i) \/ RollingMerge(r, i) \/ Merge(r, i)
  BY <1>4 DEF Fetch, RollingMerge, Merge, Append
<1>5. CASE BeginMerge(r)  BY <1>5 DEF BeginMerge
<1>6. CASE Finish(r)  BY <1>6 DEF Finish
<1>7. CASE Fail(r)  BY <1>7 DEF Fail
<1>8. CASE StashSidecar(r) \/ SidecarStays(r)  BY <1>8 DEF StashSidecar, SidecarStays
<1>9. CASE Die(r)  BY <1>9 DEF Die
<1> QED  BY <1>1, <1>2, <1>3, <1>4, <1>5, <1>6, <1>7, <1>8, <1>9 DEF download

\* What is left to show of a step of one run, for the types ...
LEMMA PlacedKept ==
  ASSUME Placed, NEW r \in Runs, Touched(r), Typed(r)', Has(r)',
         dir'[Stash] \in Dir \cup {Nothing}, side'[Stash] \in Digests \cup {Nothing},
         old' \subseteq {"dir", "sidecar"}, left' \in Legacy \cup {Nothing},
         seen' \subseteq {"parted", "kept"}
  PROVE  Placed'
<1>1. \A q \in Runs : Typed(q)' /\ Has(q)'
  <2> SUFFICES ASSUME NEW q \in Runs, q # r PROVE Typed(q)' /\ Has(q)'  OBVIOUS
  <2>1. Typed(q) /\ Has(q)  BY PlacesDiffer DEF Placed, TypeOK, Typed
  <2> QED  BY <2>1 DEF Touched, Typed, Has
<1>2. run' \in [Runs -> Run]  BY <1>1 DEF Touched, Typed
<1>3. /\ dir' \in [Places -> Dir \cup {Nothing}]
      /\ side' \in [Places -> Digests \cup {Nothing}]
  BY <1>1 DEF Touched, Typed, Places
<1> QED  BY <1>1, <1>2, <1>3 DEF Placed, TypeOK, Typed

\* ... and for the proofs.
LEMMA FollowsKept ==
  ASSUME Follows, NEW r \in Runs, Touched(r), RunProved(r)', StashProved'
  PROVE  Follows'
<1>1. \A q \in Runs : q # r => RunProved(q)'
  BY DEF Follows, Touched, RunProved, Loads, Own, Proves
<1> QED  BY <1>1 DEF Follows

-----------------------------------------------------------------------------
(* The steps.                                                              *)

LEMMA StartKeeps == ASSUME RInv, NEW r \in Runs, Start(r) PROVE RInv'
<1> USE PlacesDiffer, NothingIsNone
<1>1. Touched(r)  BY Frame DEF RInv, Placed, download
<1>2. run'[r] = [at |-> "restoring", mode |-> run[r].mode, digest |-> run[r].digest, out |-> run[r].out]
  BY GoesOn DEF RInv, Placed, Start
<1>3. /\ run[r].at = "new" /\ run[r] \in Run /\ Has(r)
      /\ dir'[r] = dir[r] /\ side'[r] = side[r]
      /\ dir'[Stash] = IF "dir" \in old THEN Nothing ELSE dir[Stash]
      /\ side'[Stash] = IF "sidecar" \in old THEN Nothing ELSE side[Stash]
      /\ left' \in {left, Nothing} /\ old' = {} /\ seen' \subseteq seen \cup {"parted"}
  BY DEF RInv, Placed, TypeOK, Start, See
<1>4. Placed'  BY <1>1, <1>2, <1>3, PlacedKept DEF RInv, Placed, TypeOK, Typed, Has, Run
<1>5. ASSUME seen' = {} PROVE Follows'
  <2>1. /\ seen = {} /\ Follows /\ ~(old = {"dir"} /\ side[Stash] # Nothing)
        /\ ~(old # {} /\ Between(r))
    BY <1>5 DEF Start, See, RInv
  <2>2. RunProved(r)'  BY <1>2, <1>3 DEF RunProved, Loads, Proves, Has
  <2>3. Proves(side[Stash], dir[Stash])'  BY <1>3, <2>1 DEF Follows, StashProved, Proves
  <2>4. OneMover'  BY <1>1, <1>2, <2>1 DEF Follows, StashProved, OneMover, Touched, Moving
  <2>5. Restored' /\ Stashed'
    <3>1. CASE old = {}
      BY <1>1, <1>2, <1>3, <2>1, <3>1 DEF Follows, StashProved, Restored, Stashed, Touched
    <3>2. CASE old # {}
      BY <1>1, <1>2, <2>1, <3>2 DEF Between, Restored, Stashed, Touched
    <3> QED  BY <3>1, <3>2
  <2>6. NoStraySidecar'
    <3>1. side'[Stash] # Nothing => old = {}
      <4>1. old \subseteq {"dir", "sidecar"}  BY DEF RInv, Placed, TypeOK
      <4>2. old = {} \/ old = {"dir"} \/ "sidecar" \in old  BY <4>1
      <4> QED  BY <4>2, <2>1, <1>3
    <3> SUFFICES ASSUME side'[Stash] # Nothing, dir'[Stash] = Nothing
                 PROVE  \E q \in Runs : run'[q].at = "restored"
      BY DEF NoStraySidecar
    <3>2. side[Stash] # Nothing /\ dir[Stash] = Nothing  BY <1>3, <3>1
    <3>3. PICK q \in Runs : run[q].at = "restored"
      BY <2>1, <3>2 DEF Follows, StashProved, NoStraySidecar
    <3> QED  BY <1>1, <1>3, <3>3 DEF Touched
  <2> QED  BY <1>1, <2>1, <2>2, <2>3, <2>4, <2>5, <2>6, FollowsKept DEF StashProved
<1> QED  BY <1>4, <1>5 DEF RInv

LEMMA RestoreDirKeeps == ASSUME RInv, NEW r \in Runs, RestoreDir(r) PROVE RInv'
<1> USE PlacesDiffer, NothingIsNone
<1>1. Touched(r)  BY Frame DEF RInv, Placed, download
<1>2. run'[r] = [at |-> "restored", mode |-> run[r].mode, digest |-> run[r].digest, out |-> run[r].out]
  BY GoesOn DEF RInv, Placed, RestoreDir
<1>3. /\ run[r].at = "restoring" /\ run[r] \in Run /\ Has(r) /\ dir[Stash] # Nothing
      /\ dir'[r] = dir[Stash] /\ dir'[Stash] = Nothing
      /\ UNCHANGED <<side, old, left>> /\ seen' \subseteq seen \cup {"parted"}
  BY DEF RInv, Placed, TypeOK, RestoreDir, See
<1>4. Placed'  BY <1>1, <1>2, <1>3, PlacedKept DEF RInv, Placed, TypeOK, Typed, Has, Run
<1>5. ASSUME seen' = {} PROVE Follows'
  <2>1. seen = {} /\ Follows /\ ~Between(r)  BY <1>5 DEF RestoreDir, See, RInv
  <2>2. RunProved(r)'  BY <1>2, <1>3 DEF RunProved, Loads, Proves, Has
  <2>3. \A q \in Runs : run'[q].at \in Moving => q = r
    BY <1>1, <2>1 DEF Between, Touched, Moving
  <2>4. Proves(side[Stash], dir[Stash])' /\ OneMover' /\ Restored' /\ Stashed' /\ NoStraySidecar'
    BY <1>2, <1>3, <2>1, <2>3 DEF Follows, StashProved, Proves, OneMover, Restored, Stashed,
       NoStraySidecar, Moving
  <2> QED  BY <1>1, <2>1, <2>2, <2>4, FollowsKept DEF StashProved
<1> QED  BY <1>4, <1>5 DEF RInv

LEMMA NothingToRestoreKeeps == ASSUME RInv, NEW r \in Runs, NothingToRestore(r) PROVE RInv'
<1> USE PlacesDiffer, NothingIsNone
<1>1. Touched(r)  BY Frame DEF RInv, Placed, download
<1>2. run'[r] = [at |-> "ready", mode |-> run[r].mode, digest |-> run[r].digest, out |-> run[r].out]
  BY GoesOn DEF RInv, Placed, NothingToRestore
<1>3. /\ run[r].at = "restoring" /\ run[r] \in Run /\ Has(r)
      /\ UNCHANGED <<dir, side, old, left, seen>>
  BY DEF RInv, Placed, TypeOK, NothingToRestore
<1>4. Placed'  BY <1>1, <1>2, <1>3, PlacedKept DEF RInv, Placed, TypeOK, Typed, Has, Run
<1>5. ASSUME seen' = {} PROVE Follows'
  <2>1. seen = {} /\ Follows  BY <1>3, <1>5 DEF RInv
  <2>2. RunProved(r)'  BY <1>2, <1>3 DEF RunProved, Loads, Proves, Has
  <2>3. StashProved'
    BY <1>1, <1>2, <1>3, <2>1 DEF Follows, StashProved, Proves, OneMover, Restored, Stashed,
       NoStraySidecar, Moving, Touched
  <2> QED  BY <1>1, <2>1, <2>2, <2>3, FollowsKept
<1> QED  BY <1>4, <1>5 DEF RInv

\* The pair is together again, in the task directory.
LEMMA RestoreSidecarKeeps == ASSUME RInv, NEW r \in Runs, RestoreSidecar(r) PROVE RInv'
<1> USE PlacesDiffer, NothingIsNone
<1>1. Touched(r)  BY Frame DEF RInv, Placed, download
<1>2. run'[r] = [at |-> "ready", mode |-> run[r].mode, digest |-> run[r].digest, out |-> run[r].out]
  BY GoesOn DEF RInv, Placed, RestoreSidecar
<1>3. /\ run[r].at = "restored" /\ run[r] \in Run /\ Has(r)
      /\ side'[r] = side[Stash] /\ side'[Stash] = Nothing
      /\ UNCHANGED <<dir, old, left, seen>>
  BY DEF RInv, Placed, TypeOK, RestoreSidecar, Has
<1>4. Placed'  BY <1>1, <1>2, <1>3, PlacedKept DEF RInv, Placed, TypeOK, Typed, Has, Run
<1>5. ASSUME seen' = {} PROVE Follows'
  <2>1. seen = {} /\ Follows  BY <1>3, <1>5 DEF RInv
  <2>2. RunProved(r)'
    BY <1>2, <1>3, <2>1 DEF RunProved, Loads, Proves, Follows, StashProved, Restored
  <2>3. \A q \in Runs : run'[q].at \notin Moving
    BY <1>1, <1>2, <1>3, <2>1 DEF Follows, StashProved, OneMover, Touched, Moving
  <2>4. StashProved'
    BY <1>3, <2>3 DEF StashProved, Proves, OneMover, Restored, Stashed, NoStraySidecar, Moving
  <2> QED  BY <1>1, <2>1, <2>2, <2>4, FollowsKept
<1> QED  BY <1>4, <1>5 DEF RInv

\* A step of a run that moves nothing leaves the stash as it was.
LEMMA StashKept ==
  ASSUME Follows, NEW r \in Runs, Touched(r), run[r].at \notin Moving, run'[r].at \notin Moving,
         dir'[Stash] = dir[Stash], side'[Stash] = side[Stash]
  PROVE  StashProved'
<1>1. /\ \A q \in Runs : run'[q].at \in Moving => q # r /\ run[q].at = run'[q].at
      /\ \A q \in Runs : run[q].at \in Moving => q # r /\ run[q].at = run'[q].at
  BY DEF Touched
<1>2. Proves(side[Stash], dir[Stash])' /\ OneMover' /\ NoStraySidecar'
  BY <1>1 DEF Follows, StashProved, Proves, OneMover, NoStraySidecar, Moving
<1>3. Restored' /\ Stashed'
  BY <1>1 DEF Follows, StashProved, Proves, Restored, Stashed, Moving, Touched
<1> QED  BY <1>2, <1>3 DEF StashProved

LEMMA ProveKeeps == ASSUME RInv, NEW r \in Runs, Prove(r) PROVE RInv'
<1> USE PlacesDiffer, NothingIsNone
<1>1. Touched(r)  BY Frame DEF RInv, Placed, download
<1>2. PICK d \in Digests :
        LET reusable == can_resume(r) /\ side[r] = d IN
        /\ run' = [run EXCEPT ![r].at = "loading", ![r].digest = d]
        /\ dir' = [dir EXCEPT ![r] = IF reusable /\ dir[r] # Nothing THEN dir[r] ELSE Empty]
        /\ side' = [side EXCEPT ![r] = IF can_resume(r) THEN d ELSE side[r]]
        /\ left' = IF can_resume(r) /\ left # Nothing /\ left.of = d THEN left ELSE Nothing
  BY DEF Prove
<1>3. run'[r] = [at |-> "loading", mode |-> run[r].mode, digest |-> d, out |-> run[r].out]
  <2>1. run \in [Runs -> Run]  BY DEF RInv, Placed, TypeOK
  <2> QED  BY <1>2, <2>1 DEF Run
<1>4. /\ run[r].at = "ready" /\ run[r] \in Run /\ Has(r) /\ dir[r] \in Dir \cup {Nothing}
      /\ dir'[r] = IF can_resume(r) /\ side[r] = d /\ dir[r] # Nothing THEN dir[r] ELSE Empty
      /\ dir'[Stash] = dir[Stash] /\ side'[Stash] = side[Stash]
      /\ side'[r] = IF can_resume(r) THEN d ELSE side[r]
      /\ left' \in {left, Nothing} /\ seen' \subseteq seen \cup {"kept"} /\ old' = old
  BY <1>2 DEF RInv, Placed, TypeOK, Prove, See
<1>5. Placed'  BY <1>1, <1>3, <1>4, PlacedKept DEF RInv, Placed, TypeOK, Typed, Has, Run
<1>6. ASSUME seen' = {} PROVE Follows'
  <2>1. seen = {} /\ Follows /\ (can_resume(r) \/ side[r] = Nothing)
    BY <1>6 DEF Prove, See, RInv
  <2>2. \A i \in Segs : dir'[r][i] \in {Nothing, [of |-> d, form |-> "raw"]}
    BY <1>4, <2>1 DEF Follows, RunProved, Proves, Empty
  <2>3. can_resume(r) \/ \A i \in Segs : dir'[r][i] = Nothing  BY <1>4 DEF Empty
  <2>4. RunProved(r)'
    BY <1>3, <1>4, <2>1, <2>2, <2>3 DEF RunProved, Loads, Own, Proves, can_resume, Has, Empty
  <2>5. StashProved'  BY <1>1, <1>3, <1>4, <2>1, StashKept DEF Moving
  <2> QED  BY <1>1, <2>1, <2>4, <2>5, FollowsKept
<1> QED  BY <1>5, <1>6 DEF RInv

LEMMA FetchKeeps == ASSUME RInv, NEW r \in Runs, NEW i \in Segs, Fetch(r, i) PROVE RInv'
<1> USE PlacesDiffer, NothingIsNone
<1>1. Touched(r)  BY Frame DEF RInv, Placed, download
<1>2. /\ run[r].at = "loading" /\ run[r] \in Run /\ Has(r)
      /\ dir[r] \in Dir /\ run[r].digest \in Digests
      /\ dir'[r] = [dir[r] EXCEPT ![i] = Own(r)]
      /\ dir'[Stash] = dir[Stash]
      /\ UNCHANGED <<run, side, old, left, seen>>
  BY DEF RInv, Placed, TypeOK, Run, Fetch, Own
<1>3. Own(r) \in Content  BY <1>2 DEF Own, Content
<1>4. dir'[r] \in Dir  BY <1>2, <1>3 DEF Dir
<1>5. Placed'  BY <1>1, <1>2, <1>4, PlacedKept DEF RInv, Placed, TypeOK, Typed, Has, Run
<1>6. ASSUME seen' = {} PROVE Follows'
  <2>1. seen = {} /\ Follows  BY <1>2, <1>6 DEF RInv
  <2>2. \A k \in Segs : dir'[r][k] \in {dir[r][k], Own(r)}  BY <1>2 DEF Dir
  <2>3. RunProved(r)'
    BY <1>2, <2>1, <2>2 DEF Follows, RunProved, Loads, Proves, Own
  <2>4. StashProved'  BY <1>1, <1>2, <2>1, StashKept DEF Moving
  <2> QED  BY <1>1, <2>1, <2>3, <2>4, FollowsKept
<1> QED  BY <1>5, <1>6 DEF RInv

LEMMA AppendKeeps ==
  ASSUME RInv, NEW r \in Runs, NEW i \in Segs, RollingMerge(r, i) \/ Merge(r, i)
  PROVE  RInv'
<1> USE PlacesDiffer, NothingIsNone
<1>1. Touched(r)  BY Frame DEF RInv, Placed, download
<1>2. /\ \/ run[r].at = "loading" /\ run[r].mode = "rolling"
         \/ run[r].at = "merging" /\ run[r].mode # "mangle"
      /\ Append(r, i)
  BY DEF RollingMerge, Merge
<1>3. /\ run[r] \in Run /\ Has(r) /\ dir[r] \in Dir /\ run[r].digest \in Digests
      /\ dir[r][i] \in Content
  BY <1>2 DEF RInv, Placed, TypeOK, Run, Append, Dir
<1>4. run'[r] = [at |-> run[r].at, mode |-> run[r].mode, digest |-> run[r].digest,
                 out |-> [run[r].out EXCEPT ![i] = dir[r][i]]]
  BY <1>2, <1>3 DEF RInv, Placed, TypeOK, Run, Append
<1>5. /\ dir'[r] = [dir[r] EXCEPT ![i] = Nothing] /\ dir'[Stash] = dir[Stash]
      /\ UNCHANGED <<side, old, left, seen>>
  BY <1>2 DEF RInv, Placed, TypeOK, Append
<1>6. dir'[r] \in Dir /\ run'[r].out \in Dir  BY <1>3, <1>4, <1>5 DEF Dir, Run
<1>7. Placed'
  BY <1>1, <1>2, <1>3, <1>4, <1>5, <1>6, PlacedKept DEF RInv, Placed, TypeOK, Typed, Has, Run
<1>8. ASSUME seen' = {} PROVE Follows'
  <2>1. seen = {} /\ Follows  BY <1>5, <1>8 DEF RInv
  <2>2. \A k \in Segs : /\ dir'[r][k] \in {dir[r][k], Nothing}
                        /\ run'[r].out[k] \in {run[r].out[k], dir[r][i]}
    BY <1>3, <1>4, <1>5 DEF Dir, Run
  <2>3. Loads(r) /\ Proves(side[r], dir[r])  BY <2>1 DEF Follows, RunProved
  <2>4. RunProved(r)'
    BY <1>2, <1>3, <1>4, <1>5, <2>2, <2>3 DEF RunProved, Loads, Proves, Own
  <2>5. StashProved'  BY <1>1, <1>2, <1>4, <1>5, <2>1, StashKept DEF Moving
  <2> QED  BY <1>1, <2>1, <2>4, <2>5, FollowsKept
<1> QED  BY <1>7, <1>8 DEF RInv

\* The proof is withdrawn before the directory is rewritten.
LEMMA BeginMergeKeeps == ASSUME RInv, NEW r \in Runs, BeginMerge(r) PROVE RInv'
<1> USE PlacesDiffer, NothingIsNone
<1>1. Touched(r)  BY Frame DEF RInv, Placed, download
<1>2. /\ run[r].at = "loading" /\ run[r] \in Run /\ Has(r) /\ dir[r] \in Dir
      /\ run[r].digest \in Digests
      /\ dir'[Stash] = dir[Stash] /\ side'[Stash] = side[Stash]
      /\ UNCHANGED <<old, left, seen>>
  BY DEF RInv, Placed, TypeOK, Run, BeginMerge
<1>3. CASE run[r].mode = "mangle"
  <2>1. \A i \in Segs : dir[r][i] \in Content
    BY <1>2, <1>3 DEF Has, Empty, BeginMerge, Dir
  <2>2. /\ run'[r] = [at |-> "merging", mode |-> run[r].mode, digest |-> run[r].digest, out |-> dir[r]]
        /\ dir'[r] = [i \in Segs |-> [dir[r][i] EXCEPT !.form = "rewritten"]]
        /\ side'[r] = Nothing
    BY <1>2, <1>3 DEF RInv, Placed, TypeOK, Run, BeginMerge
  <2>3. dir'[r] \in Dir  BY <2>1, <2>2 DEF Dir, Content
  <2>4. Placed'  BY <1>1, <1>2, <2>2, <2>3, PlacedKept DEF RInv, Placed, TypeOK, Typed, Has, Run
  <2>5. ASSUME seen' = {} PROVE Follows'
    <3>1. seen = {} /\ Follows  BY <1>2, <2>5 DEF RInv
    <3>2. RunProved(r)'
      <4>1. Own(r)' = Own(r)  BY <2>2 DEF Own
      <4>2. \A i \in Segs : dir[r][i] \in {Nothing, Own(r)}
        BY <1>2, <3>1 DEF Follows, RunProved, Loads
      <4>3. Proves(side[r], dir[r])'  BY <2>2 DEF Proves
      <4>4. Loads(r)'  BY <1>3, <2>2, <4>1, <4>2 DEF Loads
      <4> QED  BY <2>2, <4>3, <4>4 DEF RunProved
    <3>3. StashProved'  BY <1>1, <1>2, <2>2, <3>1, StashKept DEF Moving
    <3> QED  BY <1>1, <3>1, <3>2, <3>3, FollowsKept
  <2> QED  BY <2>4, <2>5 DEF RInv
<1>4. CASE run[r].mode # "mangle"
  <2>1. /\ Go(r, "merging") /\ UNCHANGED <<side, dir>>  BY <1>4 DEF BeginMerge
  <2>2. run'[r] = [at |-> "merging", mode |-> run[r].mode, digest |-> run[r].digest, out |-> run[r].out]
    BY <2>1, GoesOn DEF RInv, Placed
  <2>3. Placed'  BY <1>1, <1>2, <2>1, <2>2, PlacedKept DEF RInv, Placed, TypeOK, Typed, Has, Run
  <2>4. ASSUME seen' = {} PROVE Follows'
    <3>1. seen = {} /\ Follows  BY <1>2, <2>4 DEF RInv
    <3>2. RunProved(r)'
      <4>1. Own(r)' = Own(r)  BY <2>2 DEF Own
      <4>2. Loads(r) /\ Proves(side[r], dir[r])  BY <3>1 DEF Follows, RunProved
      <4>3. Proves(side[r], dir[r])'  BY <2>1, <4>2 DEF Proves
      <4>4. Loads(r)'  BY <1>2, <1>4, <2>1, <2>2, <4>1, <4>2 DEF Loads
      <4> QED  BY <2>2, <4>3, <4>4 DEF RunProved
    <3>3. StashProved'  BY <1>1, <1>2, <2>1, <2>2, <3>1, StashKept DEF Moving
    <3> QED  BY <1>1, <3>1, <3>2, <3>3, FollowsKept
  <2> QED  BY <2>3, <2>4 DEF RInv
<1> QED  BY <1>3, <1>4

LEMMA FinishKeeps == ASSUME RInv, NEW r \in Runs, Finish(r) PROVE RInv'
<1> USE PlacesDiffer, NothingIsNone
<1>1. Touched(r)  BY Frame DEF RInv, Placed, download
<1>2. run'[r] = [at |-> "done", mode |-> run[r].mode, digest |-> run[r].digest, out |-> run[r].out]
  BY GoesOn DEF RInv, Placed, Finish
<1>3. /\ run[r].at = "merging" /\ run[r] \in Run /\ \A i \in Segs : run[r].out[i] # Nothing
      /\ dir'[r] = Nothing /\ side'[r] = Nothing
      /\ dir'[Stash] = dir[Stash] /\ side'[Stash] = side[Stash]
      /\ left' = Nothing /\ UNCHANGED <<old, seen>>
  BY DEF RInv, Placed, TypeOK, Finish, Gone
<1>4. Placed'  BY <1>1, <1>2, <1>3, PlacedKept DEF RInv, Placed, TypeOK, Typed, Has, Run
<1>5. ASSUME seen' = {} PROVE Follows'
  <2>1. seen = {} /\ Follows  BY <1>3, <1>5 DEF RInv
  <2>2. RunProved(r)'  BY <1>2, <1>3, <2>1 DEF Follows, RunProved, Loads, Proves, Own
  <2>3. StashProved'  BY <1>1, <1>2, <1>3, <2>1, StashKept DEF Moving
  <2> QED  BY <1>1, <2>1, <2>2, <2>3, FollowsKept
<1> QED  BY <1>4, <1>5 DEF RInv

\* The directory goes to the stash before its sidecar, unless one is there.
LEMMA FailKeeps == ASSUME RInv, NEW r \in Runs, Fail(r) PROVE RInv'
<1> USE PlacesDiffer, NothingIsNone
<1>1. Touched(r)  BY Frame DEF RInv, Placed, download
<1>2. /\ run[r].at \in {"ready", "loading", "merging"} /\ run[r] \in Run /\ Has(r)
      /\ old' = old /\ seen' \subseteq seen \cup {"parted"}
  BY DEF RInv, Placed, TypeOK, Fail, See
<1>3. CASE dir[r] = Nothing \/ dir[Stash] # Nothing
  <2>1. End(r, "failed") /\ Gone(r) /\ left' = Nothing  BY <1>3 DEF Fail
  <2>2. run'[r] = [at |-> "failed", mode |-> run[r].mode, digest |-> Nothing, out |-> Empty]
    BY <2>1, Ends DEF RInv, Placed
  <2>3. /\ dir'[r] = Nothing /\ side'[r] = Nothing
        /\ dir'[Stash] = dir[Stash] /\ side'[Stash] = side[Stash]
    BY <2>1 DEF RInv, Placed, TypeOK, Gone
  <2>4. Placed'  BY <1>1, <1>2, <2>1, <2>2, <2>3, PlacedKept DEF RInv, Placed, TypeOK, Typed, Has, Run
  <2>5. ASSUME seen' = {} PROVE Follows'
    <3>1. seen = {} /\ Follows  BY <2>5 DEF RInv, Fail, See
    <3>2. RunProved(r)'  BY <2>2, <2>3 DEF RunProved, Loads, Proves
    <3>3. StashProved'  BY <1>1, <1>2, <2>2, <2>3, <3>1, StashKept DEF Moving
    <3> QED  BY <1>1, <3>1, <3>2, <3>3, FollowsKept
  <2> QED  BY <2>4, <2>5 DEF RInv
<1>4. CASE dir[r] # Nothing /\ dir[Stash] = Nothing
  <2>1. /\ Go(r, "stashing")
        /\ dir' = [dir EXCEPT ![r] = Nothing, ![Stash] = dir[r]]
        /\ UNCHANGED side
    BY <1>4 DEF Fail
  <2>2. run'[r] = [at |-> "stashing", mode |-> run[r].mode, digest |-> run[r].digest, out |-> run[r].out]
    BY <2>1, GoesOn DEF RInv, Placed
  <2>3. dir'[r] = Nothing /\ dir'[Stash] = dir[r]  BY <2>1 DEF RInv, Placed, TypeOK
  <2>4. left' \in Legacy \cup {Nothing}
    <3>1. run[r].at # "ready" => run[r].digest \in Digests
      BY <1>2 DEF RInv, Placed, TypeOK, Run
    <3>2. Present(dir[r]) \in SUBSET Segs  BY DEF Present
    <3> QED  BY <1>2, <1>4, <3>1, <3>2 DEF Fail, RInv, Placed, TypeOK, Legacy
  <2>5. Placed'
    BY <1>1, <1>2, <2>1, <2>2, <2>3, <2>4, PlacedKept DEF RInv, Placed, TypeOK, Typed, Has, Run
  <2>6. ASSUME seen' = {} PROVE Follows'
    <3>1. seen = {} /\ Follows /\ ~Between(r)  BY <1>4, <2>6 DEF Fail, See, RInv
    <3>2. \A q \in Runs : run'[q].at \in Moving => q = r
      BY <1>1, <3>1 DEF Between, Touched, Moving
    <3>3. RunProved(r)'  BY <2>1, <2>2, <2>3 DEF RunProved, Loads, Proves
    <3>4. \A q \in Runs : run[q].at # "restored"
      BY <1>2, <3>1 DEF Between
    <3>5. side[Stash] = Nothing  BY <1>4, <3>1, <3>4 DEF Follows, StashProved, NoStraySidecar
    <3>6. Proves(side[r], dir[r])  BY <3>1 DEF Follows, RunProved
    <3>7. StashProved'
      <4>1. side' = side /\ dir'[Stash] = dir[r]  BY <2>1, <2>3
      <4>2. Proves(side[Stash], dir[Stash])' /\ NoStraySidecar'
        BY <3>5, <4>1 DEF Proves, NoStraySidecar
      <4>3. OneMover'  BY <3>2 DEF OneMover
      <4>4. Restored'  BY <2>2, <3>2 DEF Restored, Moving
      <4>5. Stashed'  BY <1>4, <3>2, <3>5, <3>6, <4>1 DEF Stashed, Moving, Proves
      <4> QED  BY <4>2, <4>3, <4>4, <4>5 DEF StashProved
    <3> QED  BY <1>1, <3>1, <3>3, <3>7, FollowsKept
  <2> QED  BY <2>5, <2>6 DEF RInv
<1> QED  BY <1>3, <1>4

\* The sidecar follows, and proves what lies in the stash.
LEMMA StashSidecarKeeps == ASSUME RInv, NEW r \in Runs, StashSidecar(r) PROVE RInv'
<1> USE PlacesDiffer, NothingIsNone
<1>1. Touched(r)  BY Frame DEF RInv, Placed, download
<1>2. run'[r] = [at |-> "failed", mode |-> run[r].mode, digest |-> Nothing, out |-> Empty]
  BY Ends DEF RInv, Placed, StashSidecar
<1>3. /\ run[r].at = "stashing" /\ run[r] \in Run /\ Has(r) /\ dir[r] = Nothing
      /\ side'[r] = Nothing /\ side'[Stash] = IF side[r] = Nothing THEN side[Stash] ELSE side[r]
      /\ old' = {} /\ UNCHANGED <<dir, left, seen>>
  BY DEF RInv, Placed, TypeOK, StashSidecar, Has
<1>4. Placed'  BY <1>1, <1>2, <1>3, PlacedKept DEF RInv, Placed, TypeOK, Typed, Has, Run
<1>5. ASSUME seen' = {} PROVE Follows'
  <2>1. seen = {} /\ Follows  BY <1>3, <1>5 DEF RInv
  <2>2. RunProved(r)'  BY <1>2, <1>3 DEF RunProved, Loads, Proves
  <2>3. \A q \in Runs : run'[q].at \notin Moving
    BY <1>1, <1>2, <1>3, <2>1 DEF Follows, StashProved, OneMover, Touched, Moving
  <2>4. dir[Stash] # Nothing /\ side[Stash] = Nothing /\ Proves(side[r], dir[Stash])
    BY <1>3, <2>1 DEF Follows, StashProved, Stashed
  <2>5. StashProved'
    <3>1. side'[Stash] = side[r] /\ dir'[Stash] = dir[Stash]  BY <1>3, <2>4
    <3>2. Proves(side[Stash], dir[Stash])'  BY <2>4, <3>1 DEF Proves
    <3>3. OneMover' /\ Restored' /\ Stashed'  BY <2>3 DEF OneMover, Restored, Stashed, Moving
    <3>4. NoStraySidecar'
      BY <2>4, <3>1 DEF NoStraySidecar
    <3> QED  BY <3>2, <3>3, <3>4 DEF StashProved
  <2> QED  BY <1>1, <2>1, <2>2, <2>5, FollowsKept
<1> QED  BY <1>4, <1>5 DEF RInv

LEMMA SidecarStaysKeeps == ASSUME RInv, NEW r \in Runs, SidecarStays(r) PROVE RInv'
<1> USE PlacesDiffer, NothingIsNone
<1>1. Touched(r)  BY Frame DEF RInv, Placed, download
<1>2. /\ run[r] \in Run /\ Has(r) /\ UNCHANGED <<dir, old>> /\ left' = Nothing
      /\ seen' = seen \cup {"parted"} /\ side'[Stash] = side[Stash]
  BY DEF RInv, Placed, TypeOK, SidecarStays, See
<1>3. CASE run[r].at = "restored"
  <2>1. Go(r, "ready") /\ UNCHANGED side  BY <1>3 DEF SidecarStays
  <2>2. run'[r] = [at |-> "ready", mode |-> run[r].mode, digest |-> run[r].digest, out |-> run[r].out]
    BY <2>1, GoesOn DEF RInv, Placed
  <2> QED  BY <1>1, <1>2, <1>3, <2>1, <2>2, PlacedKept DEF RInv, Placed, TypeOK, Typed, Has, Run
<1>4. CASE run[r].at = "stashing"
  <2>1. End(r, "failed") /\ side' = [side EXCEPT ![r] = Nothing]  BY <1>4 DEF SidecarStays
  <2>2. run'[r] = [at |-> "failed", mode |-> run[r].mode, digest |-> Nothing, out |-> Empty]
    BY <2>1, Ends DEF RInv, Placed
  <2>3. side'[r] = Nothing  BY <2>1 DEF RInv, Placed, TypeOK
  <2> QED  BY <1>1, <1>2, <1>4, <2>2, <2>3, PlacedKept DEF RInv, Placed, TypeOK, Typed, Has, Run
<1> QED  BY <1>3, <1>4 DEF SidecarStays

LEMMA DieKeeps == ASSUME RInv, NEW r \in Runs, Die(r) PROVE RInv'
<1> USE PlacesDiffer, NothingIsNone
<1>1. Touched(r)  BY Frame DEF RInv, Placed, download
<1>2. run'[r] = [at |-> "dead", mode |-> run[r].mode, digest |-> Nothing, out |-> Empty]
  BY Ends DEF RInv, Placed, Die
<1>3. /\ run[r] \in Run /\ dir'[r] = Nothing /\ side'[r] = Nothing
      /\ dir'[Stash] = dir[Stash] /\ side'[Stash] = side[Stash]
      /\ left' \in {left, Nothing} /\ seen' \subseteq seen \cup {"parted"} /\ old' = old
  BY DEF RInv, Placed, TypeOK, Die, Gone, See
<1>4. Placed'  BY <1>1, <1>2, <1>3, PlacedKept DEF RInv, Placed, TypeOK, Typed, Has, Run
<1>5. ASSUME seen' = {} PROVE Follows'
  <2>1. seen = {} /\ Follows /\ run[r].at \notin Moving  BY <1>5 DEF RInv, Die, See, Moving
  <2>2. RunProved(r)'  BY <1>2, <1>3 DEF RunProved, Loads, Proves
  <2>3. StashProved'  BY <1>1, <1>2, <1>3, <2>1, StashKept DEF Moving
  <2> QED  BY <1>1, <2>1, <2>2, <2>3, FollowsKept
<1> QED  BY <1>4, <1>5 DEF RInv

-----------------------------------------------------------------------------
\* However runs fail, die, overlap and age the stash, the pairs stay proved until
\* one is parted, or kept by a run that cannot resume.
THEOREM Invariance == Spec => []RInv
<1>1. Init => RInv
  <2> USE PlacesDiffer, NothingIsNone
  <2> SUFFICES ASSUME Init PROVE RInv  OBVIOUS
  <2>1. \A r \in Runs : /\ run[r] \in Run /\ run[r].at = "new" /\ run[r].out = Empty
                        /\ dir[r] = Nothing /\ side[r] = Nothing
    BY ReuseAssumption DEF Init, Run
  <2>2. run \in [Runs -> Run]  BY <2>1 DEF Init
  <2>3. Placed  BY <2>1, <2>2 DEF Init, Placed, TypeOK, Has
  <2>4. Follows
    <3>1. dir[Stash] = Nothing /\ side[Stash] = Nothing  BY DEF Init
    <3>2. ASSUME NEW r \in Runs PROVE RunProved(r)
      <4>1. Proves(side[r], dir[r])
        <5>1. side[r] = Nothing  BY <2>1
        <5> QED  BY <5>1 DEF Proves
      <4>2. run[r].at = "new"  BY <2>1
      <4> QED  BY <4>1, <4>2 DEF RunProved, Loads
    <3>3. StashProved
      BY <2>1, <3>1 DEF StashProved, Proves, OneMover, Moving, Restored, Stashed, NoStraySidecar
    <3> QED  BY <3>2, <3>3 DEF Follows
  <2> QED  BY <2>3, <2>4 DEF RInv
<1>2. RInv /\ [Next]_vars => RInv'
  <2> SUFFICES ASSUME RInv, [Next]_vars PROVE RInv'  OBVIOUS
  <2>1. CASE Age
    <3>1. UNCHANGED <<run, dir, side, left, seen>> /\ old' \subseteq {"dir", "sidecar"}
      BY <2>1 DEF Age
    <3> QED  BY <3>1 DEF RInv, Placed, TypeOK, Has, Follows, StashProved, RunProved, Proves, OneMover,
               Restored, Stashed, NoStraySidecar, Loads, Own
  <2>2. ASSUME NEW r \in Runs, download(r) PROVE RInv'
    BY <2>2, StartKeeps, RestoreDirKeeps, NothingToRestoreKeeps, RestoreSidecarKeeps, ProveKeeps,
       FetchKeeps, AppendKeeps, BeginMergeKeeps, FinishKeeps, FailKeeps, StashSidecarKeeps,
       SidecarStaysKeeps, DieKeeps
       DEF download
  <2>3. CASE UNCHANGED vars
    BY <2>3 DEF vars, RInv, Placed, TypeOK, Has, Follows, StashProved, RunProved, Proves, OneMover,
       Restored, Stashed, NoStraySidecar, Loads, Own
  <2> QED  BY <2>1, <2>2, <2>3 DEF Next
<1> QED  BY <1>1, <1>2, PTL DEF Spec

\* Runs, directories and sidecars keep their types; a run that is over has left
\* nothing in its task directory.
THEOREM TypeCorrect == Spec => []TypeOK
<1>1. RInv => TypeOK  BY DEF RInv, Placed
<1> QED  BY <1>1, Invariance, PTL

\* No track holds a segment of another segmentation, or one in another form than
\* its own run would have fetched.
THEOREM OnlyProvedSegments == Spec => []ReuseIsProved
<1>1. RInv => ReuseIsProved
  BY DEF RInv, Follows, RunProved, Own, ReuseIsProved, OwnSegments
<1> QED  BY <1>1, Invariance, PTL

-----------------------------------------------------------------------------
(* What is left is taken over.                                             *)

\* Of a step of the one run that is alive: what is left to show.
LEMMA OneTakesOver ==
  ASSUME NEW r \in Runs, Touched(r), \A q \in Runs \ {r} : ~Alive(q),
         run'[r].at = "restored" => Holds(dir[r], side[Stash])',
         run'[r].at = "ready" => Holds(dir[r], side[r])',
         run'[r].at = "stashing" => Holds(dir[Stash], side[r])',
         run'[r].at \in {"restored", "ready", "loading", "merging", "stashing"}
           \/ Holds(dir[Stash], side[Stash])'
  PROVE  TakenOver'
<1>1. \A q \in Runs \ {r} : ~Alive(q)'  BY DEF Touched, Alive
<1>2. \A q \in Runs \ {r} : run'[q].at \notin {"restored", "ready", "stashing"}
  BY <1>1 DEF Alive
<1> QED  BY <1>1, <1>2 DEF TakenOver

LEMMA TakenOverKept ==
  ASSUME Placed, TakenOver, NEW r \in Runs, download(r), left' # Nothing
  PROVE  TakenOver'
<1> USE PlacesDiffer, NothingIsNone
<1>1. Touched(r)  BY Frame DEF Placed
<1>2. /\ run \in [Runs -> Run] /\ dir \in [Places -> Dir \cup {Nothing}]
      /\ side \in [Places -> Digests \cup {Nothing}] /\ left \in Legacy \cup {Nothing}
  BY DEF Placed, TypeOK
<1>3. left # Nothing => left.of # Nothing  BY <1>2 DEF Legacy
\* Where the run that moves is alive, no other is.
<1>4. ASSUME left # Nothing, Alive(r) PROVE \A q \in Runs \ {r} : ~Alive(q)
  BY <1>4 DEF TakenOver
\* As long as it has not taken the directory, all is in the stash.
<1>5. ASSUME left # Nothing, run[r].at = "restoring" PROVE Holds(dir[Stash], side[Stash])
  <2>1. \A q \in Runs \ {r} : ~Alive(q)  BY <1>4, <1>5 DEF Alive
  <2>2. \A q \in Runs : run[q].at \notin {"restored", "ready", "loading", "merging", "stashing"}
    BY <1>5, <2>1 DEF Alive
  <2> QED  BY <1>5, <2>2 DEF TakenOver
<1>6. CASE Start(r)
  <2>1. /\ run[r].at = "new" /\ Go(r, "restoring")
        /\ left' = left /\ old = {} /\ Alone(r)
    BY <1>6 DEF Start
  <2>2. dir'[Stash] = dir[Stash] /\ side'[Stash] = side[Stash]
    BY <1>2, <1>6, <2>1 DEF Start
  <2>3. run'[r].at = "restoring"  BY <2>1, GoesTo DEF Placed
  <2>4. \A q \in Runs : ~Alive(q)  BY <2>1 DEF Alone, Alive
  <2>5. Holds(dir[Stash], side[Stash])  BY <2>1, <2>4 DEF TakenOver, Alive
  <2> QED  BY <1>1, <2>1, <2>2, <2>3, <2>4, <2>5, OneTakesOver DEF Holds
<1>7. CASE RestoreDir(r)
  <2>1. /\ run[r].at = "restoring" /\ Go(r, "restored") /\ left' = left /\ side' = side
        /\ dir'[r] = dir[Stash]
    BY <1>2, <1>7 DEF RestoreDir
  <2>2. run'[r].at = "restored"  BY <2>1, GoesTo DEF Placed
  <2>3. Holds(dir[Stash], side[Stash]) /\ \A q \in Runs \ {r} : ~Alive(q)
    BY <1>4, <1>5, <2>1 DEF Alive
  <2> QED  BY <1>1, <2>1, <2>2, <2>3, OneTakesOver DEF Holds
<1>8. CASE NothingToRestore(r)
  BY <1>5, <1>8 DEF NothingToRestore, Holds
<1>9. CASE RestoreSidecar(r)
  <2>1. run[r].at = "restored" /\ Go(r, "ready") /\ left' = left /\ dir' = dir
    BY <1>9 DEF RestoreSidecar
  <2>2. run'[r].at = "ready"  BY <2>1, GoesTo DEF Placed
  <2>3. Holds(dir[r], side[Stash]) /\ \A q \in Runs \ {r} : ~Alive(q)
    BY <1>4, <2>1 DEF Alive, TakenOver
  <2>4. side'[r] = side[Stash]
    BY <1>2, <1>3, <1>9, <2>1, <2>3 DEF RestoreSidecar, Holds
  <2> QED  BY <1>1, <2>1, <2>2, <2>3, <2>4, OneTakesOver DEF Holds
<1>10. CASE Prove(r)
  <2>1. run[r].at = "ready" /\ left # Nothing  BY <1>10 DEF Prove
  <2>2. run'[r].at = "loading"  BY <1>2, <1>10 DEF Prove, Run
  <2> QED  BY <1>1, <1>4, <2>1, <2>2, OneTakesOver DEF Alive
<1>11. CASE (\E i \in Segs : Fetch(r, i) \/ RollingMerge(r, i) \/ Merge(r, i)) \/ BeginMerge(r)
  <2>1. run[r].at \in {"loading", "merging"} /\ left' = left
    BY <1>11 DEF Fetch, RollingMerge, Merge, Append, BeginMerge
  <2>2. run'[r].at \in {"loading", "merging"}
    BY <1>2, <1>11 DEF Fetch, RollingMerge, Merge, Append, BeginMerge, Go, Run
  <2> QED  BY <1>1, <1>4, <2>1, <2>2, OneTakesOver DEF Alive
<1>12. CASE Finish(r) \/ SidecarStays(r)
  BY <1>12 DEF Finish, SidecarStays
<1>13. CASE Fail(r)
  <2>1. /\ Alone(r) /\ Go(r, "stashing") /\ dir[r] # Nothing /\ side' = side
        /\ dir' = [dir EXCEPT ![r] = Nothing, ![Stash] = dir[r]]
    BY <1>13 DEF Fail
  <2>2. run'[r].at = "stashing"  BY <2>1, GoesTo DEF Placed
  <2>3. dir'[Stash] = dir[r] /\ side'[r] = side[r]  BY <1>2, <2>1
  <2>4. CASE run[r].at = "ready"
    <3>1. left' = left  BY <1>13, <2>1, <2>4 DEF Fail
    <3>2. Holds(dir[r], side[r])  BY <2>4, <3>1 DEF TakenOver
    <3> QED  BY <1>1, <2>1, <2>2, <2>3, <3>1, <3>2, OneTakesOver DEF Holds, Alone
  <2>5. CASE run[r].at # "ready"
    <3>1. left' = [of |-> side[r], segs |-> Present(dir[r])]
      BY <1>13, <2>1, <2>5 DEF Fail
    <3> QED  BY <1>1, <2>1, <2>2, <2>3, <3>1, OneTakesOver DEF Holds, Alone
  <2> QED  BY <2>4, <2>5
<1>14. CASE StashSidecar(r)
  <2>1. run[r].at = "stashing" /\ End(r, "failed") /\ left' = left /\ dir' = dir
    BY <1>14 DEF StashSidecar
  <2>2. run'[r].at = "failed"  BY <2>1, GoesTo DEF Placed
  <2>3. Holds(dir[Stash], side[r]) /\ \A q \in Runs \ {r} : ~Alive(q)
    BY <1>4, <2>1 DEF Alive, TakenOver
  <2>4. side'[Stash] = side[r]
    BY <1>2, <1>3, <1>14, <2>1, <2>3 DEF StashSidecar, Holds
  <2> QED  BY <1>1, <2>1, <2>2, <2>3, <2>4, OneTakesOver DEF Holds
<1>15. CASE Die(r)
  <2>1. run[r].at = "restoring" /\ left' = left /\ End(r, "dead") /\ Gone(r)
    BY <1>15 DEF Die
  <2>2. run'[r].at = "dead"  BY <2>1, GoesTo DEF Placed
  <2>3. dir'[Stash] = dir[Stash] /\ side'[Stash] = side[Stash]  BY <1>2, <2>1 DEF Gone
  <2>4. Holds(dir[Stash], side[Stash]) /\ \A q \in Runs \ {r} : ~Alive(q)
    BY <1>4, <1>5, <2>1 DEF Alive
  <2> QED  BY <1>1, <2>1, <2>2, <2>3, <2>4, OneTakesOver DEF Holds
<1> QED  BY <1>6, <1>7, <1>8, <1>9, <1>10, <1>11, <1>12, <1>13, <1>14, <1>15 DEF download

\* What a failed run leaves behind is all in the directory of the run that takes
\* over, from the stash to its own loading.
THEOREM AllIsTakenOver == Spec => []TakenOver
<1>1. Init => TakenOver  BY DEF Init, TakenOver
<1>2. RInv /\ TakenOver /\ [Next]_vars => TakenOver'
  <2> SUFFICES ASSUME RInv, TakenOver, [Next]_vars, left' # Nothing PROVE TakenOver'
    BY DEF TakenOver
  <2>1. CASE Age
    BY <2>1 DEF Age, TakenOver, Holds, Alive
  <2>2. ASSUME NEW r \in Runs, download(r) PROVE TakenOver'
    BY <2>2, TakenOverKept DEF RInv
  <2>3. CASE UNCHANGED vars
    BY <2>3 DEF vars, TakenOver, Holds, Alive
  <2> QED  BY <2>1, <2>2, <2>3 DEF Next
<1> QED  BY <1>1, <1>2, Invariance, PTL DEF Spec

\* A run that loads goes there by Prove.
LEMMA LoadsByProve ==
  ASSUME TypeOK, [Next]_vars, NEW r \in Runs, run[r].at = "ready", run'[r].at = "loading"
  PROVE  Prove(r)
<1>1. ASSUME NEW q \in Runs, download(q) PROVE q = r
  BY <1>1, Frame DEF Touched
<1>2. run' # run  OBVIOUS
<1>3. download(r)  BY <1>1, <1>2 DEF Next, Age, vars
<1>4. ASSUME NEW to, Go(r, to) PROVE to = "loading"  BY <1>4, GoesTo
<1>5. ASSUME NEW to, End(r, to) PROVE to = "loading"  BY <1>5, GoesTo
<1>6. Prove(r) \/ Fail(r) \/ Die(r)
  BY <1>3 DEF download, Start, RestoreDir, NothingToRestore, RestoreSidecar, Fetch, RollingMerge,
     Merge, BeginMerge, Finish, StashSidecar, SidecarStays
<1>7. ~Fail(r)  BY <1>4, <1>5 DEF Fail
<1>8. ~Die(r)  BY <1>5 DEF Die
<1> QED  BY <1>6, <1>7, <1>8

\* A retry that loads the same segmentation has all the segments it was left.
THEOREM RetryFetchesNoneTwice == Spec => NothingWasted
<1>1. ASSUME RInv, TakenOver, [Next]_vars, NEW r \in Runs,
             run[r].at = "ready", run'[r].at = "loading", left' # Nothing
      PROVE  left'.segs \subseteq Present(dir'[r])
  <2>1. Prove(r)  BY <1>1, LoadsByProve DEF RInv, Placed
  <2>2. PICK d \in Digests :
          /\ dir' = [dir EXCEPT ![r] = IF can_resume(r) /\ side[r] = d /\ dir[r] # Nothing
                                       THEN dir[r] ELSE Empty]
          /\ left' = IF can_resume(r) /\ left # Nothing /\ left.of = d THEN left ELSE Nothing
    BY <2>1 DEF Prove
  <2>3. left' = left /\ left # Nothing /\ left.of = d /\ can_resume(r)  BY <1>1, <2>2
  <2>4. Holds(dir[r], side[r])  BY <1>1, <2>3 DEF TakenOver
  <2>5. dir'[r] = dir[r]
    BY <2>2, <2>3, <2>4, PlacesDiffer DEF Holds, RInv, Placed, TypeOK
  <2> QED  BY <2>3, <2>4, <2>5 DEF Holds
<1>2. RInv /\ TakenOver /\ [Next]_vars =>
        [\A r \in Runs : (run[r].at = "ready" /\ run'[r].at = "loading" /\ left' # Nothing)
                           => left'.segs \subseteq Present(dir'[r])]_vars
  BY <1>1
<1> QED  BY <1>2, Invariance, AllIsTakenOver, PTL DEF Spec, NothingWasted
=============================================================================
