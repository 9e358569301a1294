---------------------------- MODULE SegmentReuse ----------------------------
(***************************************************************************)
(* The segments of one track across the runs that download it: the         *)
(* directory and its sidecar that a failed run leaves in the stash         *)
(* (unshackle/core/temp.py), the proof that a later run may reuse them     *)
(* (core/tracks/resume.py), and the steps of Track.download and of the     *)
(* manifest parsers between which a run may fail, die or be overtaken.     *)
(*                                                                         *)
(* A directory and its sidecar move in two renames.  The task directory of *)
(* a run is its own: once the run has died, nothing reads it again, and    *)
(* the sweep removes it.                                                   *)
(***************************************************************************)
EXTENDS Naturals, FiniteSets

CONSTANTS
  Runs,        \* the processes that download the track
  Stash,       \* the place beside the task directories
  Segs,        \* segment indices
  Digests,     \* the segmentations the manifest may have, by fingerprint
  Modes,       \* how runs may be configured
  MayDie,      \* whether a process may be killed
  AtOnce,      \* how many of them run at a time
  Nothing

Places == Runs \cup {Stash}

\* resume: segments stay as they came until the merge.  in_place: mp4decrypt
\* rewrites each as it comes.  rolling: each is appended and removed as it
\* comes.  mangle: the merge of the HLS parser, which rewrites and moves them.
Mode == {"resume", "mangle", "in_place", "rolling"}

ASSUME ReuseAssumption ==
  /\ Segs \subseteq Nat /\ IsFiniteSet(Segs) /\ Modes \subseteq Mode
  /\ MayDie \in BOOLEAN /\ AtOnce \in Nat \ {0}
  /\ Stash \notin Runs

VARIABLES
  run,   \* the state of each run
  dir,   \* the segment directory at each place, Nothing when there is none
  side,  \* the digest in the sidecar at each place, Nothing when there is none
  old,   \* which of the two in the stash are past STASH_MAX_AGE
  left,  \* what the last failed run should have left to the next one (observed)
  seen   \* what has happened to directories and sidecars (observed)

vars == <<run, dir, side, old, left, seen>>

\* A segment file, by the segmentation it was fetched under.
Content == [of : Digests, form : {"raw", "rewritten"}]
Dir     == [Segs -> Content \cup {Nothing}]
Empty   == [i \in Segs |-> Nothing]
Present(d) == {i \in Segs : d[i] # Nothing}

\* What a failed run leaves to the next one.
Legacy == [of : Digests, segs : SUBSET Segs]

ASSUME NothingAssumption == Nothing \notin Digests \cup Content \cup Dir \cup Legacy

Run == [at : {"new", "restoring", "restored", "ready", "loading", "merging", "stashing",
              "done", "failed", "dead"},
        mode : Mode, digest : Digests \cup {Nothing}, out : Dir]

\* Every variable keeps its type, a run that downloads has its directory, and
\* one that is over has left nothing in a task directory.
TypeOK ==
  /\ run \in [Runs -> Run]
  /\ dir \in [Places -> Dir \cup {Nothing}]
  /\ side \in [Places -> Digests \cup {Nothing}]
  /\ old \subseteq {"dir", "sidecar"}
  /\ left \in Legacy \cup {Nothing}
  /\ seen \subseteq {"parted", "kept"}
  /\ \A r \in Runs :
       /\ run[r].at \in {"loading", "merging"} => dir[r] # Nothing /\ run[r].digest # Nothing
       /\ run[r].at \in {"done", "failed", "dead"} => dir[r] = Nothing /\ side[r] = Nothing

Init ==
  /\ run \in [Runs -> [at : {"new"}, mode : Modes, digest : {Nothing}, out : {Empty}]]
  /\ dir = [p \in Places |-> Nothing]
  /\ side = [p \in Places |-> Nothing]
  /\ old = {} /\ left = Nothing /\ seen = {}

-----------------------------------------------------------------------------
Alive(r) == run[r].at \notin {"new", "done", "failed", "dead"}
Alone(r) == \A q \in Runs \ {r} : ~Alive(q)

\* Another run has renamed the directory, and not yet the sidecar.
Between(r) == \E q \in Runs \ {r} : run[q].at \in {"restored", "stashing"}
Go(r, to) == run' = [run EXCEPT ![r].at = to]
See(what, happened) == seen' = IF happened THEN seen \cup {what} ELSE seen

\* The digest under which a run reads and writes a sidecar.
can_resume(r) == run[r].mode \in {"resume", "mangle"}

\* A run ends without its track: its partial output goes.
End(r, as) == run' = [run EXCEPT ![r].at = as, ![r].digest = Nothing, ![r].out = Empty]

\* The task directory goes with the run.
Gone(r) == dir' = [dir EXCEPT ![r] = Nothing] /\ side' = [side EXCEPT ![r] = Nothing]

\* STASH_MAX_AGE passes: the directory was touched before its sidecar.
Age ==
  /\ dir[Stash] # Nothing \/ side[Stash] # Nothing
  /\ old' \in {{"dir"}, {"dir", "sidecar"}} /\ old \subseteq old' /\ old' # old
  /\ UNCHANGED <<run, dir, side, left, seen>>

\* task_temp_dir sweeps the stash, each entry by its own age.
Start(r) ==
  /\ run[r].at = "new" /\ Cardinality({q \in Runs : Alive(q)}) < AtOnce
  /\ Go(r, "restoring")
  /\ dir' = [dir EXCEPT ![Stash] = IF "dir" \in old THEN Nothing ELSE @]
  /\ side' = [side EXCEPT ![Stash] = IF "sidecar" \in old THEN Nothing ELSE @]
  /\ left' = IF old = {} /\ Alone(r) THEN left ELSE Nothing
  /\ See("parted", (old = {"dir"} /\ side[Stash] # Nothing) \/ (old # {} /\ Between(r)))
  /\ old' = {}

\* restore_segments: the directory first ...
RestoreDir(r) ==
  /\ run[r].at = "restoring" /\ dir[Stash] # Nothing
  /\ dir' = [dir EXCEPT ![r] = dir[Stash], ![Stash] = Nothing]
  /\ Go(r, "restored")
  /\ See("parted", Between(r))
  /\ UNCHANGED <<side, old, left>>

NothingToRestore(r) ==
  /\ run[r].at = "restoring" /\ dir[Stash] = Nothing
  /\ Go(r, "ready")
  /\ UNCHANGED <<dir, side, old, left, seen>>

\* ... then its sidecar, whatever sidecar is there by then.
RestoreSidecar(r) ==
  /\ run[r].at = "restored"
  /\ side' = IF side[Stash] = Nothing THEN side
             ELSE [side EXCEPT ![r] = side[Stash], ![Stash] = Nothing]
  /\ Go(r, "ready")
  /\ UNCHANGED <<dir, old, left, seen>>

\* The parser has read the manifest: the segments stay when the sidecar proves
\* that they are of this segmentation.  A run that cannot resume starts with an
\* empty directory, and leaves the sidecar it found where it is.
Prove(r) ==
  /\ run[r].at = "ready"
  /\ \E d \in Digests :
       LET reusable == can_resume(r) /\ side[r] = d IN
       /\ run' = [run EXCEPT ![r].at = "loading", ![r].digest = d]
       /\ dir' = [dir EXCEPT ![r] = IF reusable /\ dir[r] # Nothing THEN dir[r] ELSE Empty]
       /\ side' = [side EXCEPT ![r] = IF can_resume(r) THEN d ELSE side[r]]
       /\ left' = IF can_resume(r) /\ left # Nothing /\ left.of = d THEN left ELSE Nothing
  /\ See("kept", ~can_resume(r) /\ side[r] # Nothing)
  /\ UNCHANGED old

\* A missing segment comes; the downloader skips a file that is there.
Fetch(r, i) ==
  /\ run[r].at = "loading" /\ dir[r][i] = Nothing /\ run[r].out[i] = Nothing
  /\ dir' = [dir EXCEPT ![r][i] =
               [of |-> run[r].digest, form |-> IF run[r].mode = "in_place" THEN "rewritten" ELSE "raw"]]
  /\ UNCHANGED <<run, side, old, left, seen>>

\* The next segment in order goes to the output.
Append(r, i) ==
  /\ dir[r][i] # Nothing /\ \A j \in Segs : j < i => run[r].out[j] # Nothing
  /\ run' = [run EXCEPT ![r].out[i] = dir[r][i]]
  /\ dir' = [dir EXCEPT ![r][i] = Nothing]
  /\ UNCHANGED <<side, old, left, seen>>

RollingMerge(r, i) == run[r].at = "loading" /\ run[r].mode = "rolling" /\ Append(r, i)

\* Everything is there.  The HLS parser withdraws the proof before it decrypts
\* and moves the files of the directory.
BeginMergeWithProof(r) ==   \* Mutant: the sidecar stays during the merge.
  /\ run[r].at = "loading"
  /\ \A i \in Segs : dir[r][i] # Nothing \/ run[r].out[i] # Nothing
  /\ IF run[r].mode = "mangle"
     THEN /\ run' = [run EXCEPT ![r].at = "merging", ![r].out = dir[r]]
          /\ dir' = [dir EXCEPT ![r] = [i \in Segs |-> [dir[r][i] EXCEPT !.form = "rewritten"]]]
     ELSE Go(r, "merging") /\ UNCHANGED dir
  /\ UNCHANGED <<side, old, left, seen>>

BeginMerge(r) ==
  /\ run[r].at = "loading"
  /\ \A i \in Segs : dir[r][i] # Nothing \/ run[r].out[i] # Nothing
  /\ IF run[r].mode = "mangle"
     THEN /\ side' = [side EXCEPT ![r] = Nothing]
          /\ run' = [run EXCEPT ![r].at = "merging", ![r].out = dir[r]]
          /\ dir' = [dir EXCEPT ![r] = [i \in Segs |-> [dir[r][i] EXCEPT !.form = "rewritten"]]]
     ELSE Go(r, "merging") /\ UNCHANGED <<side, dir>>
  /\ UNCHANGED <<old, left, seen>>

Merge(r, i) == run[r].at = "merging" /\ run[r].mode # "mangle" /\ Append(r, i)

\* The track is whole: the directory and the sidecar go.
Finish(r) ==
  /\ run[r].at = "merging" /\ \A i \in Segs : run[r].out[i] # Nothing
  /\ Go(r, "done") /\ Gone(r)
  /\ left' = Nothing
  /\ UNCHANGED <<old, seen>>

\* The download, the decryption or the merge fails, or is cancelled: abandon()
\* moves the directory to the stash unless one is there.
Fail(r) ==
  /\ run[r].at \in {"ready", "loading", "merging"}
  /\ IF dir[r] = Nothing \/ dir[Stash] # Nothing
     THEN End(r, "failed") /\ Gone(r) /\ left' = Nothing
     ELSE /\ Go(r, "stashing")
          /\ dir' = [dir EXCEPT ![r] = Nothing, ![Stash] = dir[r]]
          /\ left' = IF ~Alone(r) THEN Nothing
                     ELSE IF run[r].at = "ready" THEN left
                     ELSE IF side[r] = run[r].digest THEN [of |-> side[r], segs |-> Present(dir[r])]
                     ELSE Nothing
          /\ UNCHANGED side
  /\ See("parted", dir[r] # Nothing /\ dir[Stash] = Nothing /\ Between(r))
  /\ UNCHANGED old

StashForgets(r) ==          \* Mutant: the directory moves alone.
  /\ run[r].at = "stashing"
  /\ side' = [side EXCEPT ![r] = Nothing]
  /\ old' = {} /\ End(r, "failed")
  /\ UNCHANGED <<dir, left, seen>>

\* Its sidecar follows, and both count as new.
StashSidecar(r) ==
  /\ run[r].at = "stashing"
  /\ side' = IF side[r] = Nothing THEN side ELSE [side EXCEPT ![Stash] = side[r], ![r] = Nothing]
  /\ old' = {}
  /\ End(r, "failed")
  /\ UNCHANGED <<dir, left, seen>>

\* The second rename fails, which is only logged; between the two the process
\* may also be killed.
SidecarStays(r) ==
  /\ MayDie /\ run[r].at \in {"restored", "stashing"}
  /\ IF run[r].at = "restored" THEN Go(r, "ready") /\ UNCHANGED side
     ELSE End(r, "failed") /\ side' = [side EXCEPT ![r] = Nothing]
  /\ left' = Nothing
  /\ See("parted", TRUE)
  /\ UNCHANGED <<dir, old>>

Die(r) ==
  /\ MayDie /\ Alive(r)
  /\ End(r, "dead") /\ Gone(r)
  /\ left' = IF run[r].at = "restoring" THEN left ELSE Nothing
  /\ See("parted", run[r].at \in {"restored", "stashing"})
  /\ UNCHANGED old

-----------------------------------------------------------------------------
download(r) ==
  \/ Start(r) \/ RestoreDir(r) \/ NothingToRestore(r) \/ RestoreSidecar(r) \/ Prove(r)
  \/ \E i \in Segs : Fetch(r, i) \/ RollingMerge(r, i) \/ Merge(r, i)
  \/ BeginMerge(r) \/ Finish(r) \/ Fail(r) \/ StashSidecar(r) \/ SidecarStays(r) \/ Die(r)

Next == Age \/ \E r \in Runs : download(r)

Spec == Init /\ [][Next]_vars

-----------------------------------------------------------------------------
\* The track of a run holds each segment of the segmentation that run saw, as
\* that run itself would have fetched it.
OwnSegments ==
  \A r \in Runs : run[r].at = "done" =>
    \A i \in Segs : run[r].out[i] = [of |-> run[r].digest,
                                     form |-> IF run[r].mode = "in_place" THEN "rewritten" ELSE "raw"]

\* However runs fail, are killed, overlap and age the stash: unless a directory
\* and its sidecar were parted, or a run that cannot resume kept a sidecar it
\* found, no track holds a segment of another segmentation, one that an earlier
\* run decrypted, or one that it should have decrypted and did not.
ReuseIsProved == seen = {} => OwnSegments

\* What a failed run leaves to the next one is all there when that one loads
\* the same segmentation: a retry fetches no segment twice.
NothingWasted ==
  [][\A r \in Runs :
       (run[r].at = "ready" /\ run'[r].at = "loading" /\ left' # Nothing)
         => left'.segs \subseteq Present(dir'[r])]_vars
=============================================================================
