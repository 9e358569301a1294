-------------------------- MODULE KeyLicensingProofs --------------------------
(***************************************************************************)
(* No track is handed on with a wrong key: as long as no key was flagged   *)
(* with any number of tracks at once, and whatever is flagged when they    *)
(* come one at a time.  No track goes round for ever.  For any number of   *)
(* tracks, vaults and wrong keys.                                          *)
(***************************************************************************)
EXTENDS KeyLicensing, TLAPS, FiniteSetTheorems, SequenceTheorems, WellFoundedInduction, NaturalsInduction

\* A pass that judges the key of a vault has that key, and one that flags a key
\* has dropped it.
Judges(t) ==
  /\ track[t].at \in {"stale", "test", "drop"} /\ track[t].judged # None => track[t].keys # None
  /\ track[t].at = "test" => track[t].judged # None
  /\ track[t].at = "flag" /\ track[t].judged # None => track[t].dropped # None

\* The lock of the KID is held by the track that searches or asks for a licence.
Locked == \A t \in Tracks : track[t].at \in {"search", "challenge"} <=> lock = t

Typed == TypeOK /\ Locked /\ \A t \in Tracks : Judges(t)

-----------------------------------------------------------------------------
(* Until a key is flagged.                                                 *)

Keyless == {"queued", "lock", "search", "challenge"}
Keyed   == {"loaded", "checking", "decrypt", "stale", "test", "drop"}

\* The run has one key, or none yet: the one a vault gave, or the CDM's.
OneKey ==
  /\ flagged = {} /\ bad = {}
  /\ cache = None => source = None
  /\ source # None => source[1] = cache
  /\ cache # None /\ source = None => cache = Right

\* Every track that has a key has that one, and knows when a vault gave it.
HasOneKey(t) ==
  /\ track[t].at \notin {"flag", "settle"} /\ track[t].then = "download"
  /\ track[t].at \in {"search", "challenge"} => cache = None
  /\ track[t].at \in Keyless => track[t].held = None /\ track[t].keys = None
  /\ track[t].at \in Keyed => cache # None /\ track[t].held = cache
  /\ track[t].at \in Keyed \ {"loaded"} => track[t].keys = cache /\ (option.in_place => track[t].file = cache)
  /\ track[t].at \in {"stale", "test"} => track[t].file = cache
  /\ track[t].at \in {"stale", "test"} /\ track[t].judged = None => source = None
  /\ track[t].at = "drop" => track[t].judged # None
  /\ track[t].at = "done" => track[t].file = Right

UntilFlagged == "flagged" \notin seen => OneKey /\ \A t \in Tracks : HasOneKey(t)

-----------------------------------------------------------------------------
(* One track at a time.                                                    *)

Alone == \A t, u \in Running : t = u

\* A track that failed is the last one.
FailedIsLast == (\E t \in Tracks : track[t].at = "failed") => Running = {}

\* The key of the run is the KID's own, or the last that a vault gave.
Provenance == cache # None => cache = Right \/ (source # None /\ source[1] = cache)

\* Only the KID's own key is on its way to the vaults.
RightIsWritten == \A i \in DOMAIN writer : writer[i].key = Right

\* Segments that were decrypted in place leave no second try.
InPlaceEnds == option.in_place /\ flagged # {} => \E t \in Tracks : track[t].at \in {"flag", "failed"}

\* While the right key is flagged, nobody has it, and a track is at work on that
\* or has failed; unless the write of a licence is going to clear the flag.
FlagIsCleared ==
  (Right \in bad /\ \A i \in DOMAIN writer : writer[i].of # "licence") =>
     cache # Right /\ \E t \in Tracks : track[t].at \notin {"queued", "done"}

\* What is yet to be reported, a track will report, unless it ended with that key.
WillReport ==
  ~option.replaces => \A k \in Keys : unreported[k] # None =>
     \E t \in Tracks : \/ track[t].at \notin {"queued", "done"}
                     \/ (track[t].at = "done" /\ track[t].keys = k)

OneRun ==
  /\ Alone /\ FailedIsLast /\ Provenance /\ RightIsWritten /\ InPlaceEnds /\ FlagIsCleared
  /\ WillReport

\* The one track at work has the key of the run, or none.
HasRunKey(t) ==
  /\ track[t].at \in Keyless \cup {"flag"} => track[t].same /\ track[t].held = None /\ track[t].keys = None
  /\ track[t].at = "flag" => cache = None
  /\ track[t].at \in Keyed \cup {"settle"} => cache # None /\ track[t].held = cache
  /\ track[t].at \in (Keyed \ {"loaded"}) \cup {"settle"} =>
       IF track[t].same THEN track[t].keys = cache
       ELSE track[t].keys = None /\ cache = Right /\ track[t].at \notin {"test", "drop"}
  /\ track[t].at \in {"stale", "test", "drop"} =>
       track[t].judged = IF FromVault(t) THEN source[2] ELSE None
  /\ track[t].at \in {"stale", "test"} => track[t].file = cache
  /\ track[t].at = "done" => track[t].file = Right
  /\ ~option.replaces => track[t].same
  /\ option.in_place =>
       /\ ~track[t].backup /\ track[t].then = "download" /\ track[t].at # "settle"
       /\ track[t].at \in Keyed \ {"loaded"} => track[t].file = cache

OneByOne == OneAtATime => OneRun /\ \A t \in Tracks : HasRunKey(t)

KInv == Typed /\ UntilFlagged /\ OneByOne

-----------------------------------------------------------------------------
(* What a step does to the track it is a step of.                          *)

Others(t) == \A u \in Tracks : u # t => track'[u] = track[u]

Lasting(t) ==
  /\ track'[t].then = track[t].then /\ track'[t].same = track[t].same
  /\ track'[t].backup = track[t].backup /\ track'[t].judged = track[t].judged
  /\ track'[t].dropped = track[t].dropped /\ track'[t].passes = track[t].passes

\* A thread that goes on, and one that has returned.
WentOn(t, to) ==
  /\ track'[t].at = to /\ Lasting(t)
  /\ track'[t].keys = track[t].keys /\ track'[t].held = track[t].held /\ track'[t].file = track[t].file
HasEnded(t, to) ==
  /\ track'[t].at = to
  /\ track'[t].same /\ track'[t].then = "download" /\ ~track'[t].backup /\ track'[t].judged = None
  /\ track'[t].passes = 0
  /\ to = "done" => track'[t].keys = track[t].keys /\ track'[t].file = track[t].file

Moved(t, to) ==
  /\ track' \in [Tracks -> Track] /\ Others(t)
  /\ IF to \in {"done", "failed"} THEN HasEnded(t, to) ELSE WentOn(t, to)

\* A thread whose DRM object has got a key.
Got(t, k) ==
  /\ track' \in [Tracks -> Track] /\ Others(t) /\ Lasting(t)
  /\ track'[t].at = Resumes(t) /\ track'[t].held = k /\ track'[t].file = track[t].file
  /\ track'[t].keys = IF track[t].same THEN k ELSE track[t].keys

\* Where a thread may go.
Place == {"queued", "lock", "search", "challenge", "loaded", "checking", "decrypt", "stale", "test",
          "drop", "flag", "settle", "done", "failed"}

LEMMA NewTrackTyped == NewTrack \in Track
BY DEF NewTrack, Track

LEMMA GoMoves ==
  ASSUME TypeOK, NEW t \in Tracks, NEW to \in Place, Go(t, to)
  PROVE  Moved(t, to)
<1> DEFINE f == [NewTrack EXCEPT !.at = to]
<1> DEFINE d == [NewTrack EXCEPT !.at = to, !.keys = track[t].keys, !.file = track[t].file]
<1> DEFINE g == [track[t] EXCEPT !.at = to]
<1> DEFINE r == CASE to = "failed" -> f [] to = "done" -> d [] OTHER -> g
<1>1. track[t] \in Track /\ track \in [Tracks -> Track]
  BY DEF TypeOK
<1>2. track' = [track EXCEPT ![t] = r]
  BY DEF Go
<1>3. f \in Track /\ f.at = to /\ f.same /\ f.then = "download" /\ ~f.backup /\ f.judged = None /\ f.passes = 0
  BY DEF NewTrack, Track, Place
<1>4. /\ d \in Track /\ d.at = to /\ d.same /\ d.then = "download" /\ ~d.backup /\ d.judged = None /\ d.passes = 0
      /\ d.keys = track[t].keys /\ d.file = track[t].file
  <2>1. track[t].keys \in Keys \cup {None} /\ track[t].file \in Keys \cup {None}
    BY <1>1 DEF Track
  <2>2. d = [f EXCEPT !.keys = track[t].keys, !.file = track[t].file]
    BY DEF NewTrack
  <2>3. QED
    BY <1>3, <2>1, <2>2, Zenon DEF Track
<1>5. /\ g \in Track /\ g.at = to /\ g.then = track[t].then /\ g.same = track[t].same
      /\ g.backup = track[t].backup /\ g.judged = track[t].judged /\ g.dropped = track[t].dropped /\ g.passes = track[t].passes
      /\ g.keys = track[t].keys /\ g.held = track[t].held /\ g.file = track[t].file
  BY <1>1 DEF Track, Place
<1>6. r = IF to = "failed" THEN f ELSE IF to = "done" THEN d ELSE g
  OBVIOUS
<1> HIDE DEF f, d, g, r
<1>7. r \in Track
  BY <1>3, <1>4, <1>5, <1>6
<1>8. track' \in [Tracks -> Track] /\ track'[t] = r /\ Others(t)
  BY <1>1, <1>2, <1>7 DEF Others
<1>9. CASE to = "failed"
  BY <1>3, <1>6, <1>8, <1>9 DEF Moved, HasEnded
<1>10. CASE to = "done"
  BY <1>4, <1>6, <1>8, <1>10 DEF Moved, HasEnded
<1>11. CASE to \notin {"done", "failed"}
  BY <1>5, <1>6, <1>8, <1>11 DEF Moved, WentOn, Lasting
<1>12. QED
  BY <1>9, <1>10, <1>11

LEMMA GiveGets ==
  ASSUME TypeOK, NEW t \in Tracks, NEW k \in Keys, Give(t, k)
  PROVE  Got(t, k)
<1> DEFINE r == Holds(t, k)
<1>1. track[t] \in Track /\ track \in [Tracks -> Track]
  BY DEF TypeOK
<1>2. Resumes(t) \in Place
  BY <1>1 DEF Resumes, Place, Track
<1>3. /\ r \in Track /\ r.at = Resumes(t) /\ r.then = track[t].then /\ r.same = track[t].same
      /\ r.backup = track[t].backup /\ r.judged = track[t].judged /\ r.dropped = track[t].dropped /\ r.passes = track[t].passes
      /\ r.keys = (IF track[t].same THEN k ELSE track[t].keys) /\ r.held = k /\ r.file = track[t].file
  <2> DEFINE h == [track[t] EXCEPT !.held = k, !.at = Resumes(t)]
  <2>1. /\ h \in Track /\ h.at = Resumes(t) /\ h.then = track[t].then /\ h.same = track[t].same
        /\ h.backup = track[t].backup /\ h.judged = track[t].judged /\ h.dropped = track[t].dropped /\ h.passes = track[t].passes
        /\ h.held = k /\ h.keys = track[t].keys /\ h.file = track[t].file
    BY <1>1, <1>2 DEF Track, Place
  <2> HIDE DEF h
  <2>2. CASE track[t].same
    <3>1. r = [h EXCEPT !.keys = k]
      BY <1>1, <2>2 DEF Holds, Track, h
    <3> HIDE DEF r
    <3>2. QED
      BY <2>1, <2>2, <3>1 DEF Track
  <2>3. CASE ~track[t].same
    <3>1. r = h
      BY <1>1, <2>3 DEF Holds, Track, h
    <3> HIDE DEF r
    <3>2. QED
      BY <2>1, <2>3, <3>1 DEF Track
  <2>4. QED
    BY <2>2, <2>3
<1> HIDE DEF r
<1>4. track' = [track EXCEPT ![t] = r]
  BY DEF Give, r
<1>5. track' \in [Tracks -> Track] /\ track'[t] = r /\ Others(t)
  BY <1>1, <1>3, <1>4 DEF Others
<1>6. QED
  BY <1>3, <1>5 DEF Got, Lasting

\* A Widevine licence that replaced the dictionary.
Replaces(t) ==
  /\ track' \in [Tracks -> Track] /\ Others(t)
  /\ track'[t].at = Resumes(t) /\ track'[t].held = Right /\ ~track'[t].same
  /\ track'[t].then = track[t].then /\ track'[t].keys = track[t].keys /\ track'[t].file = track[t].file
  /\ track'[t].backup = track[t].backup /\ track'[t].judged = track[t].judged
  /\ track'[t].dropped = track[t].dropped /\ track'[t].passes = track[t].passes

LEMMA LicenceGives ==
  ASSUME TypeOK, NEW t \in Tracks, Licence(t)
  PROVE  IF option.replaces THEN Replaces(t) ELSE Got(t, Right)
<1> DEFINE r == [track[t] EXCEPT !.held = Right, !.same = FALSE, !.at = Resumes(t)]
<1>1. track[t] \in Track /\ track \in [Tracks -> Track] /\ Right \in Keys
  BY DEF TypeOK, Keys
<1>2. Resumes(t) \in Place
  BY <1>1 DEF Resumes, Place, Track
<1>3. /\ r \in Track /\ r.at = Resumes(t) /\ r.held = Right /\ r.same = FALSE
      /\ r.then = track[t].then /\ r.keys = track[t].keys /\ r.file = track[t].file
      /\ r.backup = track[t].backup /\ r.judged = track[t].judged /\ r.dropped = track[t].dropped /\ r.passes = track[t].passes
  BY <1>1, <1>2 DEF Track, Place
<1>4. track' = [track EXCEPT ![t] = IF option.replaces THEN r ELSE Holds(t, Right)]
  BY DEF Licence
<1> HIDE DEF r
<1>5. CASE option.replaces
  <2>1. track' = [track EXCEPT ![t] = r]
    BY <1>4, <1>5
  <2>2. QED
    BY <1>1, <1>3, <1>5, <2>1 DEF Replaces, Others
<1>6. CASE ~option.replaces
  <2>1. Give(t, Right)
    BY <1>4, <1>6 DEF Give
  <2>2. QED
    BY <1>1, <1>6, <2>1, GiveGets
<1>7. QED
  BY <1>5, <1>6

\* decrypt_verified takes hold of the dictionary; a key that is known to be bad
\* goes at once.
Takes(t) ==
  /\ track' \in [Tracks -> Track] /\ Others(t)
  /\ track'[t].same /\ track'[t].backup = track[t].backup /\ track'[t].judged = track[t].judged
  /\ track'[t].dropped = track[t].dropped /\ track'[t].passes = track[t].passes
  /\ track'[t].file = IF option.in_place THEN track[t].held ELSE None
  /\ IF track[t].held \in flagged
     THEN /\ track'[t].at = "lock" /\ track'[t].then = "decrypt"
          /\ track'[t].keys = None /\ track'[t].held = None
     ELSE /\ track'[t].at = "checking" /\ track'[t].then = track[t].then
          /\ track'[t].keys = track[t].held /\ track'[t].held = track[t].held

LEMMA KnownBadTakes ==
  ASSUME TypeOK, NEW t \in Tracks, KnownBad(t)
  PROVE  Takes(t)
<1> DEFINE x == [track[t] EXCEPT !.keys = track[t].held, !.same = TRUE,
                                 !.file = IF option.in_place THEN track[t].held ELSE None]
<1> DEFINE b == [x EXCEPT !.keys = None, !.held = None, !.at = "lock", !.then = "decrypt"]
<1> DEFINE g == [x EXCEPT !.keys = track[t].held, !.at = "checking"]
<1>1. track[t] \in Track /\ track \in [Tracks -> Track]
  BY DEF TypeOK
<1>2. /\ x \in Track /\ x.same /\ x.then = track[t].then
      /\ x.backup = track[t].backup /\ x.judged = track[t].judged /\ x.dropped = track[t].dropped /\ x.passes = track[t].passes
      /\ x.held = track[t].held
  BY <1>1 DEF Track
<1>3. x.file = IF option.in_place THEN track[t].held ELSE None
  BY <1>1 DEF Track
<1>4. track[t].held \in Keys \cup {None}
  BY <1>1 DEF Track
<1>5. IF track[t].held \in flagged THEN track' = [track EXCEPT ![t] = b]
                                   ELSE track' = [track EXCEPT ![t] = g]
  BY DEF KnownBad
<1> HIDE DEF x
<1>6. /\ b \in Track /\ b.same /\ b.backup = x.backup /\ b.judged = x.judged /\ b.dropped = x.dropped /\ b.passes = x.passes
      /\ b.file = x.file /\ b.at = "lock" /\ b.then = "decrypt" /\ b.keys = None /\ b.held = None
  BY <1>2 DEF Track
<1>7. /\ g \in Track /\ g.same /\ g.backup = x.backup /\ g.judged = x.judged /\ g.dropped = x.dropped /\ g.passes = x.passes
      /\ g.file = x.file /\ g.at = "checking" /\ g.then = x.then /\ g.keys = track[t].held /\ g.held = x.held
  BY <1>2, <1>4 DEF Track
<1> HIDE DEF b, g
<1>8. CASE track[t].held \in flagged
  <2>1. track' \in [Tracks -> Track] /\ track'[t] = b /\ Others(t)
    BY <1>1, <1>5, <1>6, <1>8 DEF Others
  <2>2. QED
    BY <1>2, <1>3, <1>6, <1>8, <2>1 DEF Takes
<1>9. CASE track[t].held \notin flagged
  <2>1. track' \in [Tracks -> Track] /\ track'[t] = g /\ Others(t)
    BY <1>1, <1>5, <1>7, <1>9 DEF Others
  <2>2. QED
    BY <1>2, <1>3, <1>7, <1>9, <2>1 DEF Takes
<1>10. QED
  BY <1>8, <1>9

KeepsKeys(t) ==
  /\ track'[t].keys = track[t].keys /\ track'[t].held = track[t].held /\ track'[t].same = track[t].same

Saves(t) ==
  /\ track' \in [Tracks -> Track] /\ Others(t) /\ KeepsKeys(t)
  /\ track'[t].at = "decrypt" /\ track'[t].then = track[t].then /\ track'[t].file = track[t].file
  /\ track'[t].backup <=> FromVault(t) /\ ~option.in_place
  /\ track'[t].judged = track[t].judged /\ track'[t].dropped = track[t].dropped
  /\ track'[t].passes = track[t].passes

LEMMA KeepSaves ==
  ASSUME TypeOK, NEW t \in Tracks, KeepCiphertext(t)
  PROVE  Saves(t)
<1> DEFINE b == FromVault(t) /\ ~option.in_place
<1> DEFINE r == [track[t] EXCEPT !.backup = b, !.at = "decrypt"]
<1>1. track[t] \in Track /\ track \in [Tracks -> Track]
  BY DEF TypeOK
<1>2. b \in BOOLEAN
  OBVIOUS
<1>3. track' = [track EXCEPT ![t] = r]
  BY <1>1 DEF KeepCiphertext
<1> HIDE DEF b
<1>4. /\ r \in Track /\ r.backup = b /\ r.at = "decrypt" /\ r.then = track[t].then /\ r.same = track[t].same
      /\ r.judged = track[t].judged /\ r.dropped = track[t].dropped /\ r.passes = track[t].passes /\ r.keys = track[t].keys
      /\ r.held = track[t].held /\ r.file = track[t].file
  BY <1>1, <1>2 DEF Track
<1> HIDE DEF r
<1>5. track' \in [Tracks -> Track] /\ track'[t] = r /\ Others(t)
  BY <1>1, <1>3, <1>4 DEF Others
<1>6. r.backup <=> FromVault(t) /\ ~option.in_place
  BY <1>2, <1>4, Zenon DEF b
<1>7. QED
  BY <1>4, <1>5, <1>6 DEF Saves, KeepsKeys

Tries(t) ==
  /\ track' \in [Tracks -> Track] /\ Others(t) /\ KeepsKeys(t)
  /\ track'[t].at = "stale" /\ track'[t].then = track[t].then /\ track'[t].backup = track[t].backup
  /\ track'[t].file = IF option.in_place THEN track[t].file ELSE track[t].held
  /\ track'[t].judged = IF FromVault(t) THEN source[2] ELSE None
  /\ track'[t].dropped = track[t].dropped /\ track'[t].passes = track[t].passes + 1

LEMMA DecryptTries ==
  ASSUME TypeOK, NEW t \in Tracks, Decrypt(t)
  PROVE  Tries(t)
<1> DEFINE j == IF FromVault(t) THEN source[2] ELSE None
<1> DEFINE f == IF option.in_place THEN track[t].file ELSE track[t].held
<1> DEFINE r == [track[t] EXCEPT !.passes = @ + 1, !.at = "stale", !.file = f, !.judged = j]
<1>1. track[t] \in Track /\ track \in [Tracks -> Track]
  BY DEF TypeOK
<1>2. j \in Vaults \cup {None}
  BY DEF TypeOK, Pair, FromVault
<1>3. f \in Keys \cup {None} /\ track[t].passes + 1 \in Nat
  BY <1>1 DEF Track
<1>4. track' = [track EXCEPT ![t] = r]
  BY <1>1 DEF Decrypt
<1> HIDE DEF j, f
<1>5. /\ r \in Track /\ r.judged = j /\ r.file = f /\ r.at = "stale" /\ r.then = track[t].then
      /\ r.same = track[t].same /\ r.backup = track[t].backup /\ r.dropped = track[t].dropped /\ r.passes = track[t].passes + 1
      /\ r.keys = track[t].keys /\ r.held = track[t].held
  BY <1>1, <1>2, <1>3 DEF Track
<1> HIDE DEF r
<1>6. track' \in [Tracks -> Track] /\ track'[t] = r /\ Others(t)
  BY <1>1, <1>4, <1>5 DEF Others
<1>7. QED
  BY <1>5, <1>6 DEF Tries, KeepsKeys, j, f

Drops(t) ==
  /\ track' \in [Tracks -> Track] /\ Others(t)
  /\ track'[t].at = "flag" /\ track'[t].keys = None /\ track'[t].dropped = track[t].keys
  /\ track'[t].passes = track[t].passes
  /\ track'[t].held = IF track[t].same THEN None ELSE track[t].held
  /\ track'[t].then = track[t].then /\ track'[t].same = track[t].same /\ track'[t].file = track[t].file
  /\ track'[t].backup = track[t].backup /\ track'[t].judged = track[t].judged

LEMMA DropDrops ==
  ASSUME TypeOK, NEW t \in Tracks, Drop(t)
  PROVE  Drops(t)
<1> DEFINE h == IF track[t].same THEN None ELSE track[t].held
<1> DEFINE r == [track[t] EXCEPT !.keys = None, !.dropped = track[t].keys, !.held = h, !.at = "flag"]
<1>1. track[t] \in Track /\ track \in [Tracks -> Track]
  BY DEF TypeOK
<1>2. h \in Keys \cup {None} /\ track[t].keys \in Keys \cup {None}
  BY <1>1 DEF Track
<1>3. track' = [track EXCEPT ![t] = r]
  BY <1>1 DEF Drop, Dropped, Track
<1> HIDE DEF h
<1>4. /\ r \in Track /\ r.keys = None /\ r.dropped = track[t].keys /\ r.held = h /\ r.at = "flag" /\ r.passes = track[t].passes
      /\ r.then = track[t].then /\ r.same = track[t].same /\ r.file = track[t].file
      /\ r.backup = track[t].backup /\ r.judged = track[t].judged
  BY <1>1, <1>2 DEF Track
<1> HIDE DEF r
<1>5. track' \in [Tracks -> Track] /\ track'[t] = r /\ Others(t)
  BY <1>1, <1>3, <1>4 DEF Others
<1>6. QED
  BY <1>4, <1>5 DEF Drops, h

Restores(t) ==
  /\ track' \in [Tracks -> Track] /\ Others(t) /\ KeepsKeys(t)
  /\ track'[t].at = "lock" /\ track'[t].then = "settle" /\ track'[t].file = track[t].file
  /\ track'[t].backup = track[t].backup /\ track'[t].judged = track[t].judged
  /\ track'[t].dropped = track[t].dropped /\ track'[t].passes = track[t].passes

LEMMA FlagRestores ==
  ASSUME TypeOK, NEW t \in Tracks, FlagLocally(t)
  PROVE  IF track[t].backup THEN Restores(t) ELSE Moved(t, "failed")
<1> DEFINE r == [track[t] EXCEPT !.at = "lock", !.then = "settle"]
<1>1. track[t] \in Track /\ track \in [Tracks -> Track]
  BY DEF TypeOK
<1>2. CASE track[t].backup
  <2>1. track' = [track EXCEPT ![t] = r]
    BY <1>1, <1>2 DEF FlagLocally
  <2>2. /\ r \in Track /\ r.keys = track[t].keys /\ r.dropped = track[t].dropped /\ r.passes = track[t].passes /\ r.held = track[t].held
        /\ r.at = "lock" /\ r.then = "settle" /\ r.same = track[t].same /\ r.file = track[t].file
        /\ r.backup = track[t].backup /\ r.judged = track[t].judged
    BY <1>1 DEF Track
  <2> HIDE DEF r
  <2>3. track' \in [Tracks -> Track] /\ track'[t] = r /\ Others(t)
    BY <1>1, <2>1, <2>2 DEF Others
  <2>4. QED
    BY <1>2, <2>2, <2>3 DEF Restores, KeepsKeys
<1>3. CASE ~track[t].backup
  <2>1. Go(t, "failed")
    BY <1>3 DEF FlagLocally
  <2>2. QED
    BY <1>3, <2>1, GoMoves DEF Place
<1>4. QED
  BY <1>2, <1>3

-----------------------------------------------------------------------------
(* Types, the lock, and the key that is judged.                            *)

LEMMA RightIsAKey == Right \in Keys /\ None \notin Keys /\ None \notin Pair
BY LicensingAssumption DEF Keys, Pair

Searching == {"search", "challenge"}

\* A step that leaves the lock alone, and one that takes or releases it.
LEMMA Frame ==
  ASSUME Typed, NEW t \in Tracks, track' \in [Tracks -> Track], Others(t), Judges(t)',
         \/ lock' = lock /\ (track'[t].at \in Searching <=> track[t].at \in Searching)
         \/ lock \in {t, Nobody} /\ lock' = (IF track'[t].at \in Searching THEN t ELSE Nobody)
  PROVE  Locked' /\ \A u \in Tracks : Judges(u)'
<1>1. \A u \in Tracks : u # t => track'[u] = track[u]
  BY DEF Others
<1>2. ASSUME NEW u \in Tracks PROVE Judges(u)'
  BY <1>1 DEF Typed, Judges
<1>3. Nobody \notin Tracks
  BY LicensingAssumption
<1>4. Locked'
  BY <1>1, <1>3 DEF Typed, Locked, Searching
<1>5. QED
  BY <1>2, <1>4

\* A track at the lock finds it free, or has it.
LEMMA FreeLock ==
  ASSUME Typed, NEW t \in Tracks, AtLock(t) \/ track[t].at \in Searching
  PROVE  lock \in {t, Nobody}
BY DEF Typed, Locked, AtLock, Searching

Elsewhere(t, to) == to \notin Searching /\ track[t].at \notin Searching

LEMMA MovedFrame ==
  ASSUME Typed, NEW t \in Tracks, NEW to \in Place, Moved(t, to), lock' = lock, Elsewhere(t, to),
         to \in {"stale", "test", "drop"} /\ track[t].judged # None => track[t].keys # None,
         to = "test" => track[t].judged # None,
         to # "flag"
  PROVE  track' \in [Tracks -> Track] /\ Locked' /\ \A u \in Tracks : Judges(u)'
<1>1. track' \in [Tracks -> Track] /\ Others(t) /\ track'[t].at = to
  BY DEF Moved, HasEnded, WentOn
<1>2. Judges(t)'
  <2>1. CASE to \in {"done", "failed"}
    BY <1>1, <2>1 DEF Judges
  <2>2. CASE to \notin {"done", "failed"}
    BY <1>1, <2>2 DEF Judges, Moved, WentOn, Lasting
  <2>3. QED
    BY <2>1, <2>2
<1>3. QED
  BY <1>1, <1>2, Frame DEF Elsewhere

LEMMA FirstUsableIsUsable ==
  ASSUME TypeOK, Usable # {}
  PROVE  (CHOOSE i \in Usable : \A j \in Usable : i <= j) \in Usable
<1>1. /\ Usable \in SUBSET Nat /\ DOMAIN candidates = 1..Len(candidates)
  BY LenProperties DEF TypeOK, Usable
<1>2. \E i \in Usable : \A j \in Usable : i <= j
  <2>1. IsWellFoundedOn(OpToRel(<, Nat), Nat)
    BY NatLessThanWellFounded
  <2> HIDE DEF Usable
  <2>2. PICK i \in Usable : \A j \in Usable : ~(<<j, i>> \in OpToRel(<, Nat))
    BY <1>1, <2>1, WFMin
  <2>3. ASSUME NEW j \in Usable PROVE i <= j
    <3>1. j \in Nat /\ i \in Nat
      BY <1>1
    <3>2. ~(j < i)
      BY <2>2, <3>1, Zenon DEF OpToRel
    <3>3. QED
      BY <3>1, <3>2
  <2>4. QED
    BY <2>3
<1>3. QED
  BY <1>2, Zenon

LEMMA FirstUsableIsPair ==
  ASSUME TypeOK, Usable # {}
  PROVE  FirstUsable \in Pair /\ FirstUsable[1] \notin bad
<1>1. (CHOOSE i \in Usable : \A j \in Usable : i <= j) \in Usable
  BY FirstUsableIsUsable
<1>2. DOMAIN candidates = 1..Len(candidates)
  BY LenProperties DEF TypeOK
<1>3. QED
  BY <1>1, <1>2, ElementOfSeq DEF FirstUsable, TypeOK, Usable

\* get_key() returned a pair, under the lock or at the end of a search.
LEMMA TypedFound ==
  ASSUME Typed, NEW t \in Tracks, NEW k \in Keys, NEW v \in Vaults, Found(t, k, v),
         lock \in {t, Nobody}, lock' = Nobody
  PROVE  /\ track' \in [Tracks -> Track] /\ source' \in Pair /\ cache' \in Keys
         /\ Locked' /\ \A u \in Tracks : Judges(u)'
<1>1. Got(t, k)
  BY GiveGets DEF Typed, Found
<1>2. track' \in [Tracks -> Track] /\ Others(t) /\ track'[t].at = Resumes(t)
  BY <1>1 DEF Got
<1>3. Resumes(t) \in {"loaded", "checking", "settle"}
  BY DEF Typed, TypeOK, Track, Resumes
<1>4. Judges(t)'
  BY <1>2, <1>3 DEF Judges
<1>5. QED
  BY <1>2, <1>3, <1>4, Frame DEF Found, Pair, Searching

LEMMA TypedBegin ==
  ASSUME Typed, NEW t \in Tracks, Begin(t) \/ Skip(t)
  PROVE  Typed'
<1>1. PICK to \in {"lock", "failed"} : Moved(t, to)
  <2>1. Go(t, "lock") \/ Go(t, "failed")
    BY DEF Begin, Skip
  <2>2. QED
    BY <2>1, GoMoves DEF Place, Typed
<1>2. track' \in [Tracks -> Track] /\ Locked' /\ \A u \in Tracks : Judges(u)'
  BY <1>1, MovedFrame DEF Place, Elsewhere, Searching, Begin, Skip
<1>3. QED
  BY <1>2 DEF Typed, TypeOK, Begin, Skip, stored, bookkeeping, search

LEMMA TypedFromCache ==
  ASSUME Typed, NEW t \in Tracks, FromCache(t)
  PROVE  Typed'
<1>1. Got(t, cache)
  BY GiveGets DEF Typed, FromCache, TypeOK
<1>2. track' \in [Tracks -> Track] /\ Others(t) /\ track'[t].at = Resumes(t)
  BY <1>1 DEF Got
<1>3. Resumes(t) \in {"loaded", "checking", "settle"}
  BY DEF Typed, TypeOK, Track, Resumes
<1>4. Judges(t)'
  BY <1>2, <1>3 DEF Judges
<1>5. Locked' /\ \A u \in Tracks : Judges(u)'
  BY <1>2, <1>3, <1>4, Frame DEF FromCache, AtLock, Searching
<1>6. QED
  BY <1>2, <1>5 DEF Typed, TypeOK, FromCache, stored, bookkeeping, search

LEMMA TypedFromLocal ==
  ASSUME Typed, NEW t \in Tracks, FromLocal(t)
  PROVE  Typed'
<1>1. PICK k \in Answerable(Local) : Found(t, k, Local)
  BY DEF FromLocal
<1>2. k \in Keys /\ Local \in Vaults
  BY DEF Answerable, Typed, TypeOK, Vaults
<1>3. lock = Nobody /\ lock' = Nobody
  BY DEF FromLocal, Searches, AtLock
<1>4. /\ track' \in [Tracks -> Track] /\ source' \in Pair /\ cache' \in Keys
      /\ Locked' /\ \A u \in Tracks : Judges(u)'
  BY <1>1, <1>2, <1>3, TypedFound
<1>5. QED
  BY <1>4 DEF Typed, TypeOK, FromLocal, stored, search

LEMMA TypedFromCandidates ==
  ASSUME Typed, NEW t \in Tracks, FromCandidates(t)
  PROVE  Typed'
<1>1. FirstUsable[1] \in Keys /\ FirstUsable[2] \in Vaults
  BY FirstUsableIsPair DEF FromCandidates, Typed, Pair
<1>2. Found(t, FirstUsable[1], FirstUsable[2]) /\ lock = Nobody /\ lock' = Nobody
  BY DEF FromCandidates, Searches, AtLock
<1>3. /\ track' \in [Tracks -> Track] /\ source' \in Pair /\ cache' \in Keys
      /\ Locked' /\ \A u \in Tracks : Judges(u)'
  BY <1>1, <1>2, TypedFound
<1>4. QED
  BY <1>3 DEF Typed, TypeOK, FromCandidates, stored, search

LEMMA LiveIsRemote == ASSUME TypeOK PROVE live \subseteq Remotes
BY DEF TypeOK, live, Option

\* The track that finds no key, and the lock.
LEMMA NoKeyLocks ==
  ASSUME Typed, NEW t \in Tracks, NoKey(t), lock \in {t, Nobody}
  PROVE  /\ \E to \in {"challenge", "failed"} : Moved(t, to)
         /\ track' \in [Tracks -> Track] /\ lock' \in Tracks \cup {Nobody}
         /\ Locked' /\ \A u \in Tracks : Judges(u)'
<1>1. PICK to \in {"challenge", "failed"} :
        Go(t, to) /\ lock' = IF to = "challenge" THEN t ELSE Nobody
  <2>1. CASE option.licence
    BY <2>1, Zenon DEF NoKey
  <2>2. CASE ~option.licence
    BY <2>2 DEF NoKey
  <2>3. QED
    BY <2>1, <2>2
<1>2. Moved(t, to)
  BY <1>1, GoMoves DEF Typed, Place
<1>3. track' \in [Tracks -> Track] /\ Others(t) /\ track'[t].at = to
  BY <1>2 DEF Moved, HasEnded, WentOn
<1>4. Judges(t)'
  BY <1>3 DEF Judges
<1>5. QED
  BY <1>1, <1>2, <1>3, <1>4, Frame DEF Searching

LEMMA TypedAskRemotes ==
  ASSUME Typed, NEW t \in Tracks, AskRemotes(t)
  PROVE  Typed'
<1>1. lock = Nobody /\ Searches(t)
  BY DEF AskRemotes, Searches, AtLock
<1>2. track' \in [Tracks -> Track] /\ lock' \in Tracks \cup {Nobody} /\ Locked' /\ \A u \in Tracks : Judges(u)'
  <2>1. CASE live = {}
    BY <1>1, <2>1, NoKeyLocks DEF AskRemotes
  <2>2. CASE live # {}
    <3>1. Moved(t, "search") /\ lock' = t
      BY <2>2, GoMoves DEF Typed, Place, AskRemotes
    <3>2. track' \in [Tracks -> Track] /\ Others(t) /\ track'[t].at = "search"
      BY <3>1 DEF Moved, WentOn
    <3>3. Judges(t)'
      BY <3>2 DEF Judges
    <3>4. QED
      BY <1>1, <3>1, <3>2, <3>3, Frame DEF Searching
  <2>3. QED
    BY <2>1, <2>2
<1>3. asked' \in [Tracks -> SUBSET Remotes]
  BY LiveIsRemote DEF Typed, TypeOK, AskRemotes
<1>4. QED
  BY <1>2, <1>3 DEF Typed, TypeOK, AskRemotes, stored, bookkeeping

LEMMA TypedAnswer ==
  ASSUME Typed, NEW t \in Tracks, NEW v \in Remotes, Answer(t, v)
  PROVE  Typed'
<1>1. PICK k \in Answerable(v) : Found(t, k, v) /\ answers' = answers \cup {<<k, v>>}
  BY DEF Answer
<1>2. k \in Keys /\ v \in Vaults
  BY DEF Answerable, Typed, TypeOK, Vaults
<1>3. lock = t /\ lock' = Nobody
  BY DEF Answer, Typed, Locked
<1>4. /\ track' \in [Tracks -> Track] /\ source' \in Pair /\ cache' \in Keys
      /\ Locked' /\ \A u \in Tracks : Judges(u)'
  BY <1>1, <1>2, <1>3, TypedFound
<1>5. answers' \in SUBSET Pair
  BY <1>1, <1>2 DEF Typed, TypeOK, Pair
<1>6. asked' \in [Tracks -> SUBSET Remotes] /\ late' \in SUBSET Remotes
  BY DEF Typed, TypeOK, Answer
<1>7. QED
  BY <1>3, <1>4, <1>5, <1>6 DEF Typed, TypeOK, Answer, stored

LEMMA TypedNoAnswer ==
  ASSUME Typed, NEW t \in Tracks, NEW v \in Remotes, NoAnswer(t, v)
  PROVE  Typed'
<1>1. lock = t
  BY DEF NoAnswer, Typed, Locked
<1>2. track' \in [Tracks -> Track] /\ lock' \in Tracks \cup {Nobody} /\ Locked' /\ \A u \in Tracks : Judges(u)'
  <2>1. CASE asked[t] = {v}
    BY <1>1, <2>1, NoKeyLocks DEF NoAnswer
  <2>2. CASE asked[t] # {v}
    BY <2>2 DEF NoAnswer, Typed, TypeOK, Locked, Judges
  <2>3. QED
    BY <2>1, <2>2
<1>3. asked' \in [Tracks -> SUBSET Remotes] /\ unreachable' \in SUBSET Remotes
  BY DEF Typed, TypeOK, NoAnswer
<1>4. QED
  BY <1>2, <1>3 DEF Typed, TypeOK, NoAnswer, stored

LEMMA WriteTyped ==
  ASSUME TypeOK, NEW of \in {"licence", "proof"}, NEW k \in Keys, NEW v \in Vaults \cup {None},
         writer' = Append(writer, [of |-> of, key |-> k, not_to |-> v])
  PROVE  writer' \in Seq(Write)
BY AppendProperties DEF TypeOK, Write

LEMMA TypedLicence ==
  ASSUME Typed, NEW t \in Tracks, Licence(t)
  PROVE  Typed'
<1>1. track' \in [Tracks -> Track] /\ Others(t) /\ track'[t].at = Resumes(t)
  BY LicenceGives DEF Typed, Replaces, Got
<1>2. Resumes(t) \in {"loaded", "checking", "settle"}
  BY DEF Typed, TypeOK, Track, Resumes
<1>3. Judges(t)'
  BY <1>1, <1>2 DEF Judges
<1>4. lock = t /\ lock' = Nobody
  BY DEF Licence, Typed, Locked
<1>5. Locked' /\ \A u \in Tracks : Judges(u)'
  BY <1>1, <1>2, <1>3, <1>4, Frame DEF Searching
<1>6. writer' \in Seq(Write)
  BY RightIsAKey, WriteTyped DEF Licence, Typed
<1>7. seen' \subseteq {"licensed", "flagged"} /\ cache' \in Keys
  BY RightIsAKey DEF Licence, Typed, TypeOK
<1>8. QED
  BY <1>1, <1>4, <1>5, <1>6, <1>7 DEF Typed, TypeOK, Licence, stored, bookkeeping, search

LEMMA TypedLicenceFails ==
  ASSUME Typed, NEW t \in Tracks, LicenceFails(t)
  PROVE  Typed'
<1>1. Moved(t, "failed")
  BY GoMoves DEF LicenceFails, Typed, Place
<1>2. track' \in [Tracks -> Track] /\ Others(t) /\ track'[t].at = "failed"
  BY <1>1 DEF Moved, HasEnded
<1>3. Judges(t)'
  BY <1>2 DEF Judges
<1>4. lock = t /\ lock' = Nobody
  BY DEF LicenceFails, Typed, Locked
<1>5. Locked' /\ \A u \in Tracks : Judges(u)'
  BY <1>2, <1>3, <1>4, Frame DEF Searching
<1>6. QED
  BY <1>2, <1>4, <1>5 DEF Typed, TypeOK, LicenceFails, stored, bookkeeping, search

LEMMA KeptTyped ==
  ASSUME TypeOK, NEW p \in Pair
  PROVE  Kept(p) \in Seq(Pair)
BY AppendProperties DEF TypeOK, Kept

LEMMA TypedRemember ==
  ASSUME Typed, NEW p \in Pair, remember_candidate(p)
  PROVE  Typed'
<1>1. candidates' \in Seq(Pair) /\ answers' \in SUBSET Pair
  BY KeptTyped DEF remember_candidate, Typed, TypeOK
<1>2. QED
  BY <1>1 DEF remember_candidate, Typed, TypeOK, Locked, Judges, stored

LEMMA TypedLateAnswer ==
  ASSUME Typed, NEW v \in Remotes, LateAnswer(v)
  PROVE  Typed'
<1>1. candidates' \in Seq(Pair)
  <2>1. ASSUME NEW k \in Answerable(v) PROVE <<k, v>> \in Pair
    BY DEF Answerable, Typed, TypeOK, Vaults, Pair
  <2>2. ASSUME NEW k \in Answerable(v), candidates' = Kept(<<k, v>>) PROVE candidates' \in Seq(Pair)
    BY <2>1, <2>2, KeptTyped DEF Typed
  <2>3. candidates' = candidates \/ \E k \in Answerable(v) : candidates' = Kept(<<k, v>>)
    BY Zenon DEF LateAnswer
  <2>4. candidates \in Seq(Pair)
    BY DEF Typed, TypeOK
  <2>5. QED
    BY <2>2, <2>3, <2>4
<1>2. late' \in SUBSET Remotes /\ unreachable' \in SUBSET Remotes
  BY DEF Typed, TypeOK, LateAnswer
<1>3. QED
  BY <1>1, <1>2 DEF LateAnswer, Typed, TypeOK, Locked, Judges, stored

LEMMA TypedKnownBad ==
  ASSUME Typed, NEW t \in Tracks, KnownBad(t)
  PROVE  Typed'
<1>1. /\ track' \in [Tracks -> Track] /\ Others(t) /\ track'[t].at \in {"lock", "checking"}
  BY KnownBadTakes DEF Typed, Takes
<1>2. Judges(t)'
  BY <1>1 DEF Judges
<1>3. lock' = lock /\ track[t].at = "loaded"
  BY DEF KnownBad
<1>4. Locked' /\ \A u \in Tracks : Judges(u)'
  BY <1>1, <1>2, <1>3, Frame DEF Searching
<1>5. cache' \in {None, cache}
  BY DEF KnownBad, Forget
<1>6. QED
  BY <1>1, <1>4, <1>5 DEF Typed, TypeOK, KnownBad, stored, bookkeeping, search

LEMMA TypedKeep ==
  ASSUME Typed, NEW t \in Tracks, KeepCiphertext(t)
  PROVE  Typed'
<1>1. track' \in [Tracks -> Track] /\ Others(t) /\ track'[t].at = "decrypt"
  BY KeepSaves DEF Typed, Saves
<1>2. Judges(t)'
  BY <1>1 DEF Judges
<1>3. lock' = lock /\ track[t].at = "checking"
  BY DEF KeepCiphertext
<1>4. Locked' /\ \A u \in Tracks : Judges(u)'
  BY <1>1, <1>2, <1>3, Frame DEF Searching
<1>5. QED
  BY <1>1, <1>4 DEF Typed, TypeOK, KeepCiphertext, stored, bookkeeping, search

LEMMA TypedDecrypt ==
  ASSUME Typed, NEW t \in Tracks, Decrypt(t)
  PROVE  Typed'
<1>1. Tries(t)
  BY DecryptTries DEF Typed
<1>2. track' \in [Tracks -> Track] /\ Others(t) /\ track'[t].at = "stale"
  BY <1>1 DEF Tries
<1>3. Judges(t)'
  BY <1>1 DEF Judges, Tries, KeepsKeys, FromVault
<1>4. lock' = lock /\ track[t].at = "decrypt"
  BY DEF Decrypt
<1>5. Locked' /\ \A u \in Tracks : Judges(u)'
  BY <1>2, <1>3, <1>4, Frame DEF Searching
<1>6. QED
  BY <1>2, <1>5 DEF Typed, TypeOK, Decrypt, stored, bookkeeping, search

\* The steps that move a thread on and change nothing else of a track.
Moves(t, to) ==
  \/ (to = "failed" /\ NoSourceLeft(t)) \/ (to = "drop" /\ Stale(t)) \/ (to = "done" /\ Trust(t))
  \/ (to = "test" /\ Test(t)) \/ (to = "done" /\ Decodes(t)) \/ (to = "drop" /\ DecodeFails(t))
  \/ (to = "decrypt" /\ (Unflag(t) \/ Replaced(t))) \/ (to \in {"failed", "decrypt"} /\ Retry(t))

LEMMA MovesMove ==
  ASSUME Typed, NEW t \in Tracks, NEW to, Moves(t, to), Go(t, to)
  PROVE  Moved(t, to) /\ track' \in [Tracks -> Track] /\ Locked' /\ \A u \in Tracks : Judges(u)'
<1>1. to \in Place /\ Moved(t, to) /\ to # "flag"
  BY GoMoves DEF Typed, Place, Moves
<1>2. lock' = lock /\ Elsewhere(t, to)
  BY DEF Moves, NoSourceLeft, Stale, Trust, Test, Decodes, DecodeFails, Unflag, Replaced, Retry,
         Settling, bookkeeping, search, Elsewhere, Searching
<1>3. to = "test" => track[t].judged # None
  BY DEF Moves, Test
<1>4. to \in {"stale", "test", "drop"} => track[t].at \in {"stale", "test"}
  BY DEF Moves, Stale, Test, DecodeFails
<1>5. to \in {"stale", "test", "drop"} /\ track[t].judged # None => track[t].keys # None
  BY <1>4 DEF Typed, Judges
<1>6. QED
  BY <1>1, <1>2, <1>3, <1>5, MovedFrame

LEMMA MovesGo ==
  ASSUME NEW t \in Tracks, decrypt_verified(t)
  PROVE  \/ KnownBad(t) \/ KeepCiphertext(t) \/ Decrypt(t) \/ Drop(t) \/ FlagLocally(t)
         \/ \E to \in {"failed", "drop", "done", "test", "decrypt"} : Moves(t, to) /\ Go(t, to)
<1>1. Retry(t) => \E to \in {"failed", "decrypt"} : Go(t, to)
  BY Zenon DEF Retry
<1>2. QED
  BY <1>1 DEF decrypt_verified, Moves, NoSourceLeft, Stale, Trust, Test, Decodes, DecodeFails, Unflag,
              Replaced

LEMMA ReportTyped ==
  ASSUME TypeOK, NEW k, report_replaced(k)
  PROVE  unreported' \in [Keys -> Remotes \cup {None}]
BY DEF TypeOK, report_replaced

LEMMA JudgedHasKey ==
  ASSUME Typed, NEW t \in Tracks, track[t].at \in {"stale", "test", "drop"}, track[t].judged # None
  PROVE  track[t].keys \in Keys /\ track[t].judged \in Vaults
BY DEF Typed, TypeOK, Track, Judges

LEMMA TypedMoves ==
  ASSUME Typed, NEW t \in Tracks, NEW to, Moves(t, to), Go(t, to)
  PROVE  Typed'
<1>1. track' \in [Tracks -> Track] /\ Locked' /\ \A u \in Tracks : Judges(u)'
  BY MovesMove
<1>2. TypeOK
  BY DEF Typed
<1>3. CASE NoSourceLeft(t) \/ Stale(t) \/ Test(t) \/ DecodeFails(t) \/ Retry(t)
  BY <1>1, <1>2, <1>3 DEF Typed, TypeOK, NoSourceLeft, Stale, Test, DecodeFails, Retry, stored,
                          bookkeeping, search
<1>4. CASE Trust(t)
  <2>1. unreported' \in [Keys -> Remotes \cup {None}]
    BY <1>2, <1>4, ReportTyped DEF Trust
  <2>2. QED
    BY <1>1, <1>2, <1>4, <2>1 DEF Typed, TypeOK, Trust, stored, search
<1>5. CASE Decodes(t)
  <2>1. unreported' \in [Keys -> Remotes \cup {None}]
    BY <1>2, <1>5, ReportTyped DEF Decodes
  <2>2. track[t].judged # None /\ track[t].at = "test"
    BY <1>5 DEF Decodes, Typed, Judges
  <2>3. writer' \in Seq(Write)
    BY <1>2, <1>5, <2>2, JudgedHasKey, WriteTyped DEF Decodes
  <2>4. QED
    BY <1>1, <1>2, <1>5, <2>1, <2>3 DEF Typed, TypeOK, Decodes, stored, search
<1>6. CASE Unflag(t) \/ Replaced(t)
  <2>1. track[t].keys \in Keys
    BY <1>2, <1>6 DEF Unflag, Replaced, HasNoSource, TypeOK, Track
  <2>2. writer' \in Seq(Write)
    <3>1. CASE writer' = writer
      BY <1>2, <3>1 DEF TypeOK
    <3>2. CASE writer' # writer
      <4>1. writer' = Append(writer, [of |-> "proof", key |-> track[t].keys, not_to |-> None])
        BY <1>6, <3>2 DEF Unflag, Replaced
      <4>2. QED
        BY <1>2, <2>1, <4>1, WriteTyped
    <3>3. QED
      BY <3>1, <3>2
  <2>3. CASE Unflag(t)
    BY <1>1, <1>2, <2>2, <2>3 DEF Typed, TypeOK, Unflag, search
  <2>4. CASE Replaced(t)
    BY <1>1, <1>2, <2>2, <2>4 DEF Typed, TypeOK, Replaced, stored, bookkeeping, search
  <2>5. QED
    BY <1>6, <2>3, <2>4
<1>7. QED
  BY <1>3, <1>4, <1>5, <1>6 DEF Moves

LEMMA TypedDrop ==
  ASSUME Typed, NEW t \in Tracks, Drop(t)
  PROVE  Typed'
<1>1. Drops(t)
  BY DropDrops DEF Typed
<1>2. track' \in [Tracks -> Track] /\ Others(t) /\ track'[t].at = "flag"
  BY <1>1 DEF Drops
<1>3. Judges(t)'
  BY <1>1 DEF Judges, Drops, Typed, Drop
<1>4. lock' = lock /\ track[t].at = "drop"
  BY DEF Drop, search
<1>5. Locked' /\ \A u \in Tracks : Judges(u)'
  BY <1>2, <1>3, <1>4, Frame DEF Searching
<1>6. cache' \in {None, cache}
  BY DEF Drop, Forget
<1>7. CASE track[t].judged = None
  BY <1>2, <1>4, <1>5, <1>6, <1>7 DEF Typed, TypeOK, Drop, stored, search
<1>8. CASE track[t].judged # None
  <2>1. track[t].keys \in Keys
    BY <1>4, <1>8, JudgedHasKey
  <2>2. source # None /\ source[2] # Local => source[2] \in Remotes
    BY DEF Typed, TypeOK, Pair, Vaults
  <2>3. unreported' \in [Keys -> Remotes \cup {None}]
    BY <1>8, <2>1, <2>2 DEF Typed, TypeOK, Drop
  <2>4. flagged' \in SUBSET Keys /\ source' = None /\ seen' \subseteq {"licensed", "flagged"}
    BY <1>8, <2>1 DEF Typed, TypeOK, Drop
  <2>5. QED
    BY <1>2, <1>4, <1>5, <1>6, <2>3, <2>4 DEF Typed, TypeOK, Drop, stored, search
<1>9. QED
  BY <1>7, <1>8

LEMMA TypedFlagLocally ==
  ASSUME Typed, NEW t \in Tracks, FlagLocally(t)
  PROVE  Typed'
<1>1. track' \in [Tracks -> Track] /\ Others(t) /\ track'[t].at \in {"lock", "failed"}
  BY FlagRestores DEF Typed, Restores, Moved, HasEnded
<1>2. Judges(t)'
  BY <1>1 DEF Judges
<1>3. lock' = lock /\ track[t].at = "flag"
  BY DEF FlagLocally, search
<1>4. Locked' /\ \A u \in Tracks : Judges(u)'
  BY <1>1, <1>2, <1>3, Frame DEF Searching
<1>5. rows' \in [Vaults -> SUBSET Keys] /\ bad' \in SUBSET Keys
  <2>1. CASE track[t].judged = None
    BY <2>1 DEF Typed, TypeOK, FlagLocally, stored
  <2>2. CASE track[t].judged # None
    <3>1. track[t].dropped \in Keys
      BY <1>3, <2>2 DEF Typed, TypeOK, Track, Judges
    <3>2. QED
      BY <2>2, <3>1 DEF Typed, TypeOK, FlagLocally, Vaults
  <2>3. QED
    BY <2>1, <2>2
<1>6. QED
  BY <1>1, <1>3, <1>4, <1>5 DEF Typed, TypeOK, FlagLocally, bookkeeping, search

LEMMA HeadIsWrite ==
  ASSUME TypeOK, writer # <<>>
  PROVE  Head(writer) \in Write /\ Head(writer).key \in Keys /\ Tail(writer) \in Seq(Write)
<1>1. writer \in Seq(Write)
  BY DEF TypeOK
<1> HIDE DEF Write
<1>2. Head(writer) \in Write /\ Tail(writer) \in Seq(Write)
  BY <1>1, HeadTailProperties
<1>3. QED
  BY <1>2 DEF Write

LEMMA PushedTyped ==
  ASSUME TypeOK, NEW k \in Keys, NEW to
  PROVE  Pushed(k, to) \in [Vaults -> SUBSET Keys]
BY DEF TypeOK, Pushed

LEMMA TypedStored ==
  ASSUME Typed, StoreLicensed \/ StoreProved
  PROVE  Typed'
<1>1. /\ Head(writer).key \in Keys /\ writer' \in Seq(Write)
  BY HeadIsWrite DEF Typed, StoreLicensed, StoreProved
<1>2. PICK lost \in SUBSET live : unreachable' = unreachable \cup lost /\ \E to : rows' = Pushed(Head(writer).key, to)
  BY Zenon DEF StoreLicensed, StoreProved
<1>3. unreachable' \in SUBSET Remotes /\ rows' \in [Vaults -> SUBSET Keys]
  BY <1>1, <1>2, LiveIsRemote, PushedTyped DEF Typed, TypeOK
<1>4. bad' \in SUBSET Keys /\ flagged' \in SUBSET Keys
  BY DEF Typed, TypeOK, StoreLicensed, StoreProved
<1>5. QED
  BY <1>1, <1>3, <1>4 DEF Typed, TypeOK, Locked, Judges, StoreLicensed, StoreProved, search

LEMMA TypedStep ==
  ASSUME Typed, [Next]_vars
  PROVE  Typed'
<1>1. CASE UNCHANGED vars
  BY <1>1 DEF vars, Typed, TypeOK, Locked, Judges, stored, bookkeeping, search
<1>2. ASSUME NEW t \in Tracks, TrackStep(t) PROVE Typed'
  <2>1. CASE Begin(t) \/ Skip(t)
    BY <2>1, TypedBegin
  <2>2. CASE prepare_drm(t)
    BY <2>2, TypedFromCache, TypedFromLocal, TypedFromCandidates, TypedAskRemotes, TypedAnswer,
       TypedNoAnswer, TypedLicence, TypedLicenceFails DEF prepare_drm
  <2>3. CASE decrypt_verified(t)
    BY <2>3, MovesGo, TypedMoves, TypedKnownBad, TypedKeep, TypedDecrypt, TypedDrop, TypedFlagLocally
  <2>4. QED
    BY <1>2, <2>1, <2>2, <2>3 DEF TrackStep
<1>3. QED
  BY <1>1, <1>2, TypedLateAnswer, TypedRemember, TypedStored DEF Next

-----------------------------------------------------------------------------
(* Until a key is flagged: the run has one key.                            *)

\* Before a key is flagged.
Clean == "flagged" \notin seen /\ OneKey /\ \A u \in Tracks : HasOneKey(u)

\* A step that leaves the key of the run alone.
LEMMA SameKey ==
  ASSUME Clean, NEW t \in Tracks, Others(t), UNCHANGED <<option, flagged, bad, cache, source>>,
         HasOneKey(t)'
  PROVE  OneKey' /\ \A u \in Tracks : HasOneKey(u)'
<1>1. \A u \in Tracks : u # t => track'[u] = track[u]
  BY DEF Others
<1>2. OneKey'
  BY DEF OneKey, Clean
<1>3. ASSUME NEW u \in Tracks, u # t PROVE HasOneKey(u)'
  <2>1. HasOneKey(u) /\ track'[u] = track[u]
    BY <1>1, <1>3 DEF Clean
  <2>2. QED
    BY <2>1 DEF HasOneKey
<1>4. QED
  BY <1>2, <1>3

\* A step that finds the first key: no track has one.
LEMMA FirstKey ==
  ASSUME Clean, Locked, NEW t \in Tracks, Others(t), cache = None, lock \in {t, Nobody},
         UNCHANGED <<option, flagged, bad>>, OneKey', HasOneKey(t)'
  PROVE  \A u \in Tracks : HasOneKey(u)'
<1> SUFFICES ASSUME NEW u \in Tracks, u # t PROVE HasOneKey(u)'
  OBVIOUS
<1>1. HasOneKey(u) /\ track'[u] = track[u]
  BY DEF Clean, Others
<1>2. track[u].at \notin {"search", "challenge"} /\ track[u].at \notin Keyed
  BY <1>1, LicensingAssumption DEF Locked, HasOneKey
<1>3. QED
  BY <1>1, <1>2 DEF HasOneKey, Keyed

\* A track at the lock, or in its search, has no key and the run has none.
LEMMA CleanFound ==
  ASSUME Typed, Clean, NEW t \in Tracks, NEW k \in Keys, NEW v \in Vaults, Found(t, k, v),
         track[t].at \in {"lock", "search"}, cache = None, lock \in {t, Nobody},
         UNCHANGED <<option, flagged, bad>>
  PROVE  OneKey' /\ \A u \in Tracks : HasOneKey(u)'
<1>1. Got(t, k) /\ cache' = k /\ source' = <<k, v>>
  BY GiveGets DEF Typed, Found
<1>2. HasOneKey(t)
  BY DEF Clean
<1>3. track'[t].at = "loaded" /\ track'[t].then = "download" /\ track'[t].held = k /\ k # None
  BY <1>1, <1>2, RightIsAKey DEF Got, Resumes, HasOneKey, Lasting
<1>4. OneKey'
  BY <1>1, <1>3, RightIsAKey DEF OneKey, Clean, Pair
<1>5. HasOneKey(t)'
  BY <1>1, <1>3 DEF HasOneKey, Keyless, Keyed
<1>6. QED
  BY <1>1, <1>4, <1>5, FirstKey DEF Got, Typed

LEMMA CleanPrepare ==
  ASSUME Typed, Clean, NEW t \in Tracks, prepare_drm(t)
  PROVE  OneKey' /\ \A u \in Tracks : HasOneKey(u)'
<1>1. HasOneKey(t) /\ OneKey
  BY DEF Clean
<1>2. CASE FromCache(t)
  <2>1. Got(t, cache)
    BY <1>2, GiveGets DEF Typed, FromCache, TypeOK
  <2>2. track'[t].at = "loaded" /\ track'[t].then = "download" /\ track'[t].held = cache /\ cache # None
    BY <1>1, <1>2, <2>1 DEF Got, Resumes, HasOneKey, Lasting, FromCache
  <2>3. HasOneKey(t)'
    BY <1>2, <2>2 DEF HasOneKey, Keyless, Keyed, FromCache
  <2>4. QED
    BY <1>2, <2>1, <2>3, SameKey DEF Got, FromCache, stored, bookkeeping
<1>3. CASE FromLocal(t)
  <2>1. PICK k \in Answerable(Local) : Found(t, k, Local)
    BY <1>3 DEF FromLocal
  <2>2. k \in Keys /\ Local \in Vaults
    BY DEF Answerable, Typed, TypeOK, Vaults
  <2>3. QED
    BY <1>3, <2>1, <2>2, CleanFound DEF FromLocal, Searches, AtLock, stored
<1>4. CASE FromCandidates(t)
  <2>1. FirstUsable[1] \in Keys /\ FirstUsable[2] \in Vaults
    BY <1>4, FirstUsableIsPair DEF FromCandidates, Typed, Pair
  <2>2. QED
    BY <1>4, <2>1, CleanFound DEF FromCandidates, Searches, AtLock, stored
<1>5. ASSUME NoKey(t), track[t].at \in {"lock", "search"}, cache = None, lock \in {t, Nobody},
             UNCHANGED <<option, flagged, bad, cache, source>>
      PROVE  OneKey' /\ \A u \in Tracks : HasOneKey(u)'
  <2>1. PICK to \in {"challenge", "failed"} : Moved(t, to)
    BY <1>5, NoKeyLocks
  <2>2. HasOneKey(t)'
    BY <1>1, <1>5, <2>1 DEF HasOneKey, Moved, HasEnded, WentOn, Lasting, Keyless, Keyed
  <2>3. QED
    BY <1>5, <2>1, <2>2, SameKey DEF Moved
<1>6. CASE AskRemotes(t)
  <2>1. track[t].at = "lock" /\ lock = Nobody /\ cache = None
    BY <1>6 DEF AskRemotes, Searches, AtLock
  <2>2. UNCHANGED <<option, flagged, bad, cache, source>>
    BY <1>6 DEF AskRemotes, stored, bookkeeping
  <2>3. CASE live = {}
    BY <1>5, <1>6, <2>1, <2>2, <2>3 DEF AskRemotes
  <2>4. CASE live # {}
    <3>1. Moved(t, "search")
      BY <1>6, <2>4, GoMoves DEF Typed, Place, AskRemotes
    <3>2. HasOneKey(t)'
      BY <1>1, <2>1, <2>2, <3>1 DEF HasOneKey, Moved, WentOn, Lasting, Keyless, Keyed
    <3>3. QED
      BY <2>2, <3>1, <3>2, SameKey DEF Moved
  <2>5. QED
    BY <2>3, <2>4
<1>7. ASSUME NEW v \in Remotes, Answer(t, v) PROVE OneKey' /\ \A u \in Tracks : HasOneKey(u)'
  <2>1. PICK k \in Answerable(v) : Found(t, k, v)
    BY <1>7 DEF Answer
  <2>2. k \in Keys /\ v \in Vaults
    BY DEF Answerable, Typed, TypeOK, Vaults
  <2>3. track[t].at = "search" /\ lock = t /\ cache = None
    BY <1>1, <1>7 DEF Answer, Typed, Locked, HasOneKey
  <2>4. QED
    BY <1>7, <2>1, <2>2, <2>3, CleanFound DEF Answer, stored
<1>8. ASSUME NEW v \in Remotes, NoAnswer(t, v) PROVE OneKey' /\ \A u \in Tracks : HasOneKey(u)'
  <2>1. track[t].at = "search" /\ lock = t /\ cache = None
    BY <1>1, <1>8 DEF NoAnswer, Typed, Locked, HasOneKey
  <2>2. UNCHANGED <<option, flagged, bad, cache, source>>
    BY <1>8 DEF NoAnswer, stored
  <2>3. CASE asked[t] = {v}
    BY <1>5, <1>8, <2>1, <2>2, <2>3 DEF NoAnswer
  <2>4. CASE asked[t] # {v}
    <3>1. track' = track
      BY <1>8, <2>4 DEF NoAnswer
    <3>2. HasOneKey(t)' /\ Others(t)
      BY <1>1, <2>2, <3>1 DEF HasOneKey, Others
    <3>3. QED
      BY <2>2, <3>2, SameKey
  <2>5. QED
    BY <2>3, <2>4
<1>9. CASE Licence(t)
  <2>1. IF option.replaces THEN Replaces(t) ELSE Got(t, Right)
    BY <1>9, LicenceGives DEF Typed
  <2>2. track[t].at = "challenge" /\ cache = None /\ lock = t /\ track[t].then = "download"
    BY <1>1, <1>9 DEF Licence, Typed, Locked, HasOneKey
  <2>3. /\ Others(t) /\ track'[t].at = "loaded" /\ track'[t].then = "download"
        /\ track'[t].held = Right /\ Right # None
    BY <2>1, <2>2, RightIsAKey DEF Replaces, Got, Resumes, Lasting
  <2>4. cache' = Right /\ source' = source /\ source = None /\ UNCHANGED <<option, flagged, bad>>
    BY <1>1, <1>9, <2>2 DEF Licence, OneKey, stored, bookkeeping
  <2>5. OneKey'
    BY <1>1, <2>4 DEF OneKey
  <2>6. HasOneKey(t)'
    BY <2>3, <2>4 DEF HasOneKey, Keyless, Keyed
  <2>7. QED
    BY <2>2, <2>3, <2>4, <2>5, <2>6, FirstKey DEF Typed
<1>10. CASE LicenceFails(t)
  <2>1. Moved(t, "failed")
    BY <1>10, GoMoves DEF LicenceFails, Typed, Place
  <2>2. HasOneKey(t)'
    BY <2>1 DEF HasOneKey, Moved, HasEnded, Keyless, Keyed
  <2>3. QED
    BY <1>10, <2>1, <2>2, SameKey DEF Moved, LicenceFails, stored, bookkeeping
<1>11. QED
  BY <1>2, <1>3, <1>4, <1>6, <1>7, <1>8, <1>9, <1>10 DEF prepare_drm

LEMMA CleanDecrypt ==
  ASSUME Typed, Clean, NEW t \in Tracks, decrypt_verified(t), "flagged" \notin seen'
  PROVE  OneKey' /\ \A u \in Tracks : HasOneKey(u)'
<1>1. HasOneKey(t) /\ OneKey
  BY DEF Clean
<1>2. CASE KnownBad(t)
  <2>1. Takes(t)
    BY <1>2, KnownBadTakes DEF Typed
  <2>2. track[t].held = cache /\ cache # None /\ flagged = {}
    BY <1>1, <1>2 DEF KnownBad, HasOneKey, Keyed, OneKey
  <2>3. UNCHANGED <<option, flagged, bad, cache, source>>
    BY <1>2, <2>2 DEF KnownBad, stored, bookkeeping
  <2>4. HasOneKey(t)'
    BY <1>1, <2>1, <2>2, <2>3 DEF HasOneKey, Takes, Keyless, Keyed
  <2>5. QED
    BY <2>1, <2>3, <2>4, SameKey DEF Takes
<1>3. CASE KeepCiphertext(t)
  <2>1. Saves(t)
    BY <1>3, KeepSaves DEF Typed
  <2>2. UNCHANGED <<option, flagged, bad, cache, source>> /\ track[t].at = "checking"
    BY <1>3 DEF KeepCiphertext, stored, bookkeeping
  <2>3. HasOneKey(t)'
    BY <1>1, <2>1, <2>2 DEF HasOneKey, Saves, KeepsKeys, Keyless, Keyed
  <2>4. QED
    BY <2>1, <2>2, <2>3, SameKey DEF Saves
<1>4. CASE Decrypt(t)
  <2>1. Tries(t)
    BY <1>4, DecryptTries DEF Typed
  <2>2. UNCHANGED <<option, flagged, bad, cache, source>> /\ track[t].at = "decrypt"
    BY <1>4 DEF Decrypt, stored, bookkeeping
  <2>3. track[t].keys = cache /\ track[t].held = cache /\ cache # None
    BY <1>1, <2>2 DEF HasOneKey, Keyed
  <2>4. track'[t].judged = None => source = None
    <3>1. source # None => FromVault(t) /\ source[2] # None
      BY <1>1, <2>3, LicensingAssumption DEF OneKey, FromVault, Typed, TypeOK, Pair
    <3>2. QED
      BY <2>1, <3>1 DEF Tries
  <2>5. HasOneKey(t)'
    BY <1>1, <2>1, <2>2, <2>3, <2>4 DEF HasOneKey, Tries, KeepsKeys, Keyless, Keyed
  <2>6. QED
    BY <2>1, <2>2, <2>5, SameKey DEF Tries
<1>5. ~Drop(t)
  BY <1>1 DEF Drop, HasOneKey
<1>6. ~FlagLocally(t)
  BY <1>1 DEF FlagLocally, HasOneKey
<1>7. ASSUME NEW to, Moves(t, to), Go(t, to)
      PROVE  OneKey' /\ \A u \in Tracks : HasOneKey(u)'
  <2>1. ~Unflag(t) /\ ~Replaced(t) /\ ~Retry(t) /\ ~Stale(t)
    BY <1>1 DEF Unflag, Replaced, Retry, Settling, HasOneKey, Stale, OneKey
  <2>2. Moved(t, to)
    BY <1>7, MovesMove
  <2>3. UNCHANGED <<option, flagged, bad, cache, source>>
    BY <1>7, <2>1 DEF Moves, NoSourceLeft, Trust, Test, Decodes, DecodeFails, stored, bookkeeping
  <2>4. HasOneKey(t)'
    <3>1. CASE NoSourceLeft(t) /\ to = "failed"
      BY <2>2, <3>1 DEF HasOneKey, Moved, HasEnded, Keyless, Keyed
    <3>2. CASE Trust(t) /\ to = "done"
      <4>1. source = None /\ cache # None /\ track[t].file = cache
        BY <1>1, <3>2 DEF Trust, HasOneKey, Keyed
      <4>2. track[t].file = Right
        BY <1>1, <4>1 DEF OneKey
      <4>3. QED
        BY <2>2, <3>2, <4>2 DEF HasOneKey, Moved, HasEnded, Keyless, Keyed
    <3>3. CASE Decodes(t) /\ to = "done"
      BY <2>2, <3>3 DEF HasOneKey, Moved, HasEnded, Keyless, Keyed, Decodes
    <3>4. CASE Test(t) /\ to = "test"
      BY <1>1, <2>2, <2>3, <3>4 DEF HasOneKey, Moved, WentOn, Lasting, Keyless, Keyed, Test
    <3>5. CASE DecodeFails(t) /\ to = "drop"
      <4>1. track[t].at = "test" /\ track[t].judged # None
        BY <3>5 DEF DecodeFails, Typed, Judges
      <4>2. QED
        BY <1>1, <2>2, <2>3, <3>5, <4>1 DEF HasOneKey, Moved, WentOn, Lasting, Keyless, Keyed
    <3>6. QED
      BY <1>7, <2>1, <3>1, <3>2, <3>3, <3>4, <3>5 DEF Moves
  <2>5. QED
    BY <2>2, <2>3, <2>4, SameKey DEF Moved
<1>8. QED
  BY <1>2, <1>3, <1>4, <1>5, <1>6, <1>7, MovesGo

LEMMA CleanStep ==
  ASSUME Typed, UntilFlagged, [Next]_vars
  PROVE  UntilFlagged'
<1>1. SUFFICES ASSUME "flagged" \notin seen' PROVE OneKey' /\ \A u \in Tracks : HasOneKey(u)'
  BY DEF UntilFlagged
<1>2. Clean
  <2>1. seen \subseteq seen'
    BY DEF vars, Next, TrackStep, prepare_drm, decrypt_verified, Begin, Skip, FromCache, FromLocal,
           FromCandidates, AskRemotes, Answer, NoAnswer, Licence, LicenceFails, remember_candidate,
           LateAnswer, KnownBad, KeepCiphertext, Decrypt, NoSourceLeft, Stale, Trust, Test, Decodes,
           DecodeFails, Drop, FlagLocally, Unflag, Replaced, Retry, StoreLicensed, StoreProved
  <2>2. QED
    BY <1>1, <2>1 DEF UntilFlagged, Clean
<1>3. ASSUME UNCHANGED <<option, flagged, bad, cache, source, track>>
      PROVE  OneKey' /\ \A u \in Tracks : HasOneKey(u)'
  BY <1>2, <1>3 DEF Clean, OneKey, HasOneKey
<1>4. CASE UNCHANGED vars \/ (\E v \in Remotes : LateAnswer(v)) \/ (\E p \in Pair : remember_candidate(p))
           \/ StoreProved
  BY <1>3, <1>4 DEF vars, stored, bookkeeping, LateAnswer, remember_candidate, StoreProved
<1>5. CASE StoreLicensed
  <2>1. UNCHANGED <<option, cache, source, track>> /\ flagged' = {} /\ bad' = {}
    BY <1>2, <1>5 DEF StoreLicensed, Clean, OneKey
  <2>2. QED
    BY <1>2, <2>1 DEF Clean, OneKey, HasOneKey
<1>6. ASSUME NEW t \in Tracks, TrackStep(t)
      PROVE  OneKey' /\ \A u \in Tracks : HasOneKey(u)'
  <2>1. CASE Begin(t) \/ Skip(t)
    <3>1. track[t].at = "queued" /\ UNCHANGED <<option, flagged, bad, cache, source>>
      BY <2>1 DEF Begin, Skip, stored, bookkeeping
    <3>2. PICK to \in {"lock", "failed"} : Moved(t, to)
      BY <2>1, GoMoves DEF Place, Typed, Begin, Skip
    <3>3. HasOneKey(t)'
      BY <1>2, <3>1, <3>2 DEF Clean, HasOneKey, Moved, HasEnded, WentOn, Lasting, Keyless, Keyed
    <3>4. QED
      BY <1>2, <3>1, <3>2, <3>3, SameKey DEF Moved
  <2>2. CASE prepare_drm(t)
    BY <1>2, <2>2, CleanPrepare
  <2>3. CASE decrypt_verified(t)
    BY <1>1, <1>2, <2>3, CleanDecrypt
  <2>4. QED
    BY <1>6, <2>1, <2>2, <2>3 DEF TrackStep
<1>7. QED
  BY <1>4, <1>5, <1>6 DEF Next

-----------------------------------------------------------------------------
(* One track at a time: the track at work has the key of the run.          *)

One == OneAtATime /\ OneRun /\ \A u \in Tracks : HasRunKey(u)

\* The tracks beside the one at work are waiting or done.
LEMMA Beside ==
  ASSUME One, NEW t \in Running, NEW u \in Tracks, u # t
  PROVE  track[u].at \in {"queued", "done"}
<1>1. u \notin Running /\ Running # {}
  BY DEF One, OneRun, Alone
<1>2. track[u].at # "failed"
  BY <1>1 DEF One, OneRun, FailedIsLast
<1>3. QED
  BY <1>1, <1>2 DEF Running, Ended

\* A step of the track at work leaves it the only one.
LEMMA RunFrame ==
  ASSUME One, NEW t \in Running, Others(t), option' = option, track'[t].at # "queued"
  PROVE  /\ t \in Tracks /\ OneAtATime' /\ Alone' /\ FailedIsLast'
         /\ \A u \in Tracks : u # t => HasRunKey(u)'
<1>1. t \in Tracks
  BY DEF Running
<1>2. ASSUME NEW u \in Tracks, u # t PROVE track'[u] = track[u] /\ track[u].at \in {"queued", "done"}
  BY <1>2, Beside DEF Others
<1>3. ASSUME NEW u \in Tracks, u # t PROVE HasRunKey(u)'
  <2>1. HasRunKey(u)
    BY DEF One
  <2>2. QED
    BY <1>2, <1>3, <2>1 DEF HasRunKey, Keyless, Keyed
<1>4. \A u \in Running' : u = t
  BY <1>2 DEF Running, Ended
<1>5. track'[t].at = "failed" => Running' = {}
  BY <1>2, <1>4 DEF Running, Ended
<1>6. Alone'
  BY <1>4 DEF Alone
<1>7. FailedIsLast'
  BY <1>2, <1>5 DEF FailedIsLast
<1>8. QED
  BY <1>1, <1>3, <1>6, <1>7 DEF One, OneAtATime

\* While a track is at work in place, unless it has just flagged a key, none is flagged.
LEMMA NothingFlagged ==
  ASSUME One, NEW t \in Running, option.in_place, track[t].at # "flag"
  PROVE  flagged = {}
<1>1. ASSUME NEW u \in Tracks PROVE track[u].at \notin {"flag", "failed"}
  BY Beside
  DEF Running, Ended
<1>2. QED
  BY <1>1 DEF One, OneRun, InPlaceEnds

\* A step of the track at work that writes and flags nothing, and does not hand it on.
LEMMA AtWork ==
  ASSUME One, NEW t \in Running, Others(t), option' = option, track'[t].at \notin {"queued", "done"},
         UNCHANGED <<flagged, bad, writer>>, track[t].at # "flag",
         Provenance', cache' \in {cache, None} \/ cache' \notin bad, HasRunKey(t)'
  PROVE  OneRun' /\ \A u \in Tracks : HasRunKey(u)'
<1>1. t \in Tracks /\ Alone' /\ FailedIsLast' /\ \A u \in Tracks : u # t => HasRunKey(u)'
  BY RunFrame
<1>2. InPlaceEnds'
  BY NothingFlagged DEF InPlaceEnds
<1>3. RightIsWritten'
  BY DEF One, OneRun, RightIsWritten
<1>4. WillReport'
  BY <1>1 DEF WillReport
<1>5. FlagIsCleared'
  <2>1. FlagIsCleared
    BY DEF One, OneRun
  <2>2. Right # None
    BY RightIsAKey
  <2>3. QED
    BY <1>1, <2>1, <2>2 DEF FlagIsCleared
<1>6. QED
  BY <1>1, <1>2, <1>3, <1>4, <1>5 DEF OneRun

\* The same when the key of the run stays.
LEMMA AtWorkSameKey ==
  ASSUME One, NEW t \in Running, Others(t), track'[t].at \notin {"queued", "done"},
         UNCHANGED <<option, flagged, bad, writer, cache, source>>, track[t].at # "flag", HasRunKey(t)'
  PROVE  OneRun' /\ \A u \in Tracks : HasRunKey(u)'
<1>1. Provenance'
  BY DEF One, OneRun, Provenance
<1>2. QED
  BY <1>1, AtWork

LEMMA RunFailed ==
  ASSUME NEW t \in Tracks, Moved(t, "failed"), One, option' = option
  PROVE  HasRunKey(t)'
BY DEF Moved, HasEnded, HasRunKey, Keyless, Keyed, One

LEMMA OneFound ==
  ASSUME Typed, One, NEW t \in Running, NEW k \in Keys \ bad, NEW v \in Vaults, Found(t, k, v),
         track[t].at \in {"lock", "search"}, UNCHANGED <<option, flagged, bad, writer>>
  PROVE  OneRun' /\ \A u \in Tracks : HasRunKey(u)'
<1>1. t \in Tracks
  BY DEF Running
<1>2. Got(t, k) /\ cache' = k /\ source' = <<k, v>>
  BY <1>1, GiveGets DEF Typed, Found
<1>3. HasRunKey(t) /\ track[t] \in Track
  BY <1>1 DEF One, Typed, TypeOK
<1>4. track'[t].at = Resumes(t) /\ Resumes(t) \in {"loaded", "checking", "settle"}
  BY <1>2, <1>3 DEF Got, Resumes, Track
<1>5. track[t].same /\ k # None /\ <<k, v>> # None
  BY <1>3, RightIsAKey DEF HasRunKey, Keyless, Pair
<1>6. track'[t].same /\ track'[t].held = k /\ track'[t].keys = k
  BY <1>2, <1>5 DEF Got, Lasting
<1>7. HasRunKey(t)'
  BY <1>2, <1>3, <1>4, <1>5, <1>6 DEF HasRunKey, Got, Lasting, Resumes, Keyless, Keyed
<1>8. Provenance'
  BY <1>2, <1>5 DEF Provenance
<1>9. QED
  BY <1>2, <1>4, <1>7, <1>8, AtWork DEF Got

LEMMA OneBegin ==
  ASSUME Typed, One, NEW t \in Tracks, Begin(t)
  PROVE  OneRun' /\ \A u \in Tracks : HasRunKey(u)'
<1>1. Running = {}
  <2>1. IsFiniteSet(Tracks)
    <3>1. 1 \in Int /\ TrackCount \in Int
      BY LicensingAssumption
    <3>2. QED
      BY <3>1, FS_Interval, Zenon DEF Tracks
  <2>2. IsFiniteSet(Running) /\ Cardinality(Running) \in Nat
    BY <2>1, FS_Subset, FS_CardinalityType DEF Running
  <2>3. Cardinality(Running) < 1
    BY DEF Begin, One, OneAtATime
  <2>4. QED
    BY <2>2, <2>3, FS_EmptySet
<1>2. \A u \in Tracks : track[u].at \in {"queued", "done"}
  BY <1>1 DEF Begin, Running, Ended
<1>3. Moved(t, "lock")
  BY GoMoves DEF Typed, Place, Begin
<1>4. /\ track'[t].at = "lock" /\ \A u \in Tracks : u # t => track'[u] = track[u]
      /\ track[t].at = "queued"
  BY <1>3 DEF Moved, WentOn, Others, Begin
<1>5. UNCHANGED <<option, flagged, bad, writer, cache, source, unreported>>
  BY DEF Begin, stored, bookkeeping
<1>6. Alone' /\ FailedIsLast'
  BY <1>2, <1>4 DEF Alone, FailedIsLast, Running, Ended
<1>7. Provenance' /\ RightIsWritten'
  BY <1>5 DEF One, OneRun, Provenance, RightIsWritten
<1>8. InPlaceEnds'
  BY <1>2, <1>5 DEF One, OneRun, InPlaceEnds
<1>9. FlagIsCleared'
  BY <1>4, <1>5 DEF One, OneRun, FlagIsCleared
<1>10. WillReport'
  BY <1>4, <1>5 DEF WillReport
<1>11. ASSUME NEW u \in Tracks PROVE HasRunKey(u)'
  <2>1. CASE u = t
    BY <1>3, <1>4, <1>5, <2>1 DEF One, HasRunKey, Moved, WentOn, Lasting, Keyless, Keyed
  <2>2. CASE u # t
    BY <1>2, <1>4, <1>5, <2>2 DEF One, HasRunKey, Keyless, Keyed
  <2>3. QED
    BY <2>1, <2>2
<1>12. QED
  BY <1>6, <1>7, <1>8, <1>9, <1>10, <1>11 DEF OneRun

LEMMA OneSkip ==
  ASSUME Typed, One, NEW t \in Tracks, Skip(t)
  PROVE  OneRun' /\ \A u \in Tracks : HasRunKey(u)'
<1>1. Running = {}
  BY DEF Skip, One, OneRun, FailedIsLast
<1>2. \A u \in Tracks : track[u].at \in {"queued", "done", "failed"}
  BY <1>1 DEF Running, Ended
<1>3. Moved(t, "failed")
  BY GoMoves DEF Typed, Place, Skip
<1>4. /\ track'[t].at = "failed" /\ \A u \in Tracks : u # t => track'[u] = track[u]
      /\ track[t].at = "queued"
  BY <1>3 DEF Moved, HasEnded, Others, Skip
<1>5. UNCHANGED <<option, flagged, bad, writer, cache, source, unreported>>
  BY DEF Skip, stored, bookkeeping
<1>6. Alone' /\ FailedIsLast'
  BY <1>2, <1>4 DEF Alone, FailedIsLast, Running, Ended
<1>7. Provenance' /\ RightIsWritten'
  BY <1>5 DEF One, OneRun, Provenance, RightIsWritten
<1>8. InPlaceEnds'
  BY <1>4 DEF InPlaceEnds
<1>9. FlagIsCleared'
  BY <1>4, <1>5 DEF One, OneRun, FlagIsCleared
<1>10. WillReport'
  BY <1>4 DEF WillReport
<1>11. ASSUME NEW u \in Tracks PROVE HasRunKey(u)'
  <2>1. CASE u = t
    BY <1>3, <1>5, <2>1, RunFailed
  <2>2. CASE u # t
    BY <1>2, <1>4, <1>5, <2>2 DEF One, HasRunKey, Keyless, Keyed
  <2>3. QED
    BY <2>1, <2>2
<1>12. QED
  BY <1>6, <1>7, <1>8, <1>9, <1>10, <1>11 DEF OneRun

\* A write goes to the end of the queue.
LEMMA Appended ==
  ASSUME TypeOK, RightIsWritten, NEW of \in {"licence", "proof"}, NEW v \in Vaults \cup {None},
         writer' = Append(writer, [of |-> of, key |-> Right, not_to |-> v])
  PROVE  /\ RightIsWritten'
         /\ of = "licence" => \E i \in DOMAIN writer' : writer'[i].of = "licence"
         /\ (\A i \in DOMAIN writer' : writer'[i].of # "licence")
              => \A i \in DOMAIN writer : writer[i].of # "licence"
<1> DEFINE w == [of |-> of, key |-> Right, not_to |-> v]
<1>1. w \in Write /\ w.key = Right /\ w.of = of
  BY RightIsAKey DEF Write
<1>2. writer \in Seq(Write) /\ writer' = Append(writer, w)
  BY DEF TypeOK
<1> HIDE DEF w, Write
<1>3. /\ writer' \in Seq(Write) /\ Len(writer') = Len(writer) + 1 /\ Len(writer) \in Nat
      /\ DOMAIN writer = 1..Len(writer) /\ DOMAIN writer' = 1..Len(writer')
      /\ \A i \in 1..Len(writer) : writer'[i] = writer[i]
      /\ writer'[Len(writer) + 1] = w
  BY <1>1, <1>2, AppendProperties, LenProperties
<1>4. RightIsWritten'
  BY <1>1, <1>3 DEF RightIsWritten
<1>5. QED
  BY <1>1, <1>3, <1>4

LEMMA OneLicence ==
  ASSUME Typed, One, NEW t \in Running, Licence(t)
  PROVE  OneRun' /\ \A u \in Tracks : HasRunKey(u)'
<1>1. t \in Tracks /\ track[t].at = "challenge" /\ option' = option /\ flagged' = flagged /\ cache' = Right
  BY DEF Running, Licence, bookkeeping
<1>2. IF option.replaces THEN Replaces(t) ELSE Got(t, Right)
  BY <1>1, LicenceGives DEF Typed
<1>3. HasRunKey(t) /\ track[t] \in Track /\ Right # None
  BY <1>1, RightIsAKey DEF One, Typed, TypeOK
<1>4. track[t].same /\ track[t].held = None /\ track[t].keys = None
  BY <1>1, <1>3 DEF HasRunKey, Keyless
<1>5. Others(t) /\ track'[t].at = Resumes(t) /\ Resumes(t) \in {"loaded", "checking", "settle"}
  BY <1>2, <1>3 DEF Got, Replaces, Resumes, Track
<1>6. HasRunKey(t)'
  <2>1. CASE option.replaces
    BY <1>1, <1>2, <1>3, <1>4, <1>5, <2>1 DEF HasRunKey, Replaces, Resumes, Keyless, Keyed
  <2>2. CASE ~option.replaces
    BY <1>1, <1>2, <1>3, <1>4, <1>5, <2>2 DEF HasRunKey, Got, Lasting, Resumes, Keyless, Keyed
  <2>3. QED
    BY <2>1, <2>2
<1>7. Alone' /\ FailedIsLast' /\ \A u \in Tracks : u # t => HasRunKey(u)'
  BY <1>1, <1>5, RunFrame
<1>8. Provenance'
  BY <1>1 DEF Provenance
<1>9. RightIsWritten' /\ \E i \in DOMAIN writer' : writer'[i].of = "licence"
  BY Appended DEF Licence, Typed, One, OneRun
<1>10. FlagIsCleared'
  BY <1>9 DEF FlagIsCleared
<1>11. InPlaceEnds'
  BY <1>1, NothingFlagged DEF InPlaceEnds
<1>12. WillReport'
  BY <1>1, <1>5 DEF WillReport
<1>13. QED
  BY <1>6, <1>7, <1>8, <1>9, <1>10, <1>11, <1>12 DEF OneRun

LEMMA OnePrepare ==
  ASSUME Typed, One, NEW t \in Tracks, prepare_drm(t)
  PROVE  OneRun' /\ \A u \in Tracks : HasRunKey(u)'
<1>1. track[t].at \in {"lock", "search", "challenge"} /\ t \in Running
  BY DEF prepare_drm, FromCache, FromLocal, FromCandidates, AskRemotes, Answer, NoAnswer, Licence,
         LicenceFails, Searches, AtLock, Running, Ended
<1>2. HasRunKey(t) /\ track[t] \in Track
  BY DEF One, Typed, TypeOK
<1>3. track[t].same /\ track[t].held = None /\ track[t].keys = None
  BY <1>1, <1>2 DEF HasRunKey, Keyless
<1>4. CASE FromCache(t)
  <2>1. Got(t, cache) /\ cache # None
    BY <1>4, GiveGets DEF Typed, FromCache, TypeOK
  <2>2. UNCHANGED <<option, flagged, bad, writer, cache, source>>
    BY <1>4 DEF FromCache, stored, bookkeeping
  <2>3. track'[t].at = Resumes(t) /\ Resumes(t) \in {"loaded", "checking", "settle"}
    BY <1>2, <2>1 DEF Got, Resumes, Track
  <2>4. track'[t].same /\ track'[t].held = cache /\ track'[t].keys = cache
    BY <1>3, <2>1 DEF Got, Lasting
  <2>5. HasRunKey(t)'
    BY <1>2, <2>1, <2>2, <2>3, <2>4 DEF HasRunKey, Got, Lasting, Resumes, Keyless, Keyed
  <2>6. QED
    BY <1>1, <2>1, <2>2, <2>3, <2>5, AtWorkSameKey DEF Got
<1>5. CASE FromLocal(t)
  <2>1. PICK k \in Answerable(Local) : Found(t, k, Local)
    BY <1>5 DEF FromLocal
  <2>2. k \in Keys \ bad /\ Local \in Vaults
    BY DEF Answerable, Typed, TypeOK, Vaults
  <2>3. QED
    BY <1>1, <1>5, <2>1, <2>2, OneFound DEF FromLocal, Searches, AtLock, stored
<1>6. CASE FromCandidates(t)
  <2>1. FirstUsable[1] \in Keys \ bad /\ FirstUsable[2] \in Vaults
    BY <1>6, FirstUsableIsPair DEF FromCandidates, Typed, Pair
  <2>2. QED
    BY <1>1, <1>6, <2>1, OneFound DEF FromCandidates, Searches, AtLock, stored
<1>7. ASSUME NEW to \in {"search", "challenge", "failed"}, Moved(t, to),
             UNCHANGED <<option, flagged, bad, writer, cache, source>>
      PROVE  OneRun' /\ \A u \in Tracks : HasRunKey(u)'
  <2>1. HasRunKey(t)'
    BY <1>1, <1>2, <1>3, <1>7, RunFailed DEF HasRunKey, Moved, HasEnded, WentOn, Lasting, Keyless, Keyed
  <2>2. Others(t) /\ track'[t].at = to
    BY <1>7 DEF Moved, HasEnded, WentOn
  <2>3. QED
    BY <1>1, <1>7, <2>1, <2>2, AtWorkSameKey
<1>8. CASE AskRemotes(t)
  <2>1. UNCHANGED <<option, flagged, bad, writer, cache, source>> /\ lock = Nobody
    BY <1>8 DEF AskRemotes, stored, bookkeeping, Searches, AtLock
  <2>2. \E to \in {"search", "challenge", "failed"} : Moved(t, to)
    <3>1. CASE live = {}
      BY <1>8, <2>1, <3>1, NoKeyLocks DEF AskRemotes
    <3>2. CASE live # {}
      BY <1>8, <3>2, GoMoves DEF AskRemotes, Typed, Place
    <3>3. QED
      BY <3>1, <3>2
  <2>3. QED
    BY <1>7, <2>1, <2>2
<1>9. ASSUME NEW v \in Remotes, Answer(t, v) PROVE OneRun' /\ \A u \in Tracks : HasRunKey(u)'
  <2>1. PICK k \in Answerable(v) : Found(t, k, v)
    BY <1>9 DEF Answer
  <2>2. k \in Keys \ bad /\ v \in Vaults
    BY DEF Answerable, Typed, TypeOK, Vaults
  <2>3. QED
    BY <1>1, <1>9, <2>1, <2>2, OneFound DEF Answer, stored
<1>10. ASSUME NEW v \in Remotes, NoAnswer(t, v) PROVE OneRun' /\ \A u \in Tracks : HasRunKey(u)'
  <2>1. UNCHANGED <<option, flagged, bad, writer, cache, source>> /\ lock = t
    BY <1>10 DEF NoAnswer, stored, Typed, Locked
  <2>2. CASE asked[t] = {v}
    <3>1. \E to \in {"search", "challenge", "failed"} : Moved(t, to)
      BY <1>10, <2>1, <2>2, NoKeyLocks DEF NoAnswer
    <3>2. QED
      BY <1>7, <2>1, <3>1
  <2>3. CASE asked[t] # {v}
    <3>1. track' = track
      BY <1>10, <2>3 DEF NoAnswer
    <3>2. HasRunKey(t)' /\ Others(t)
      BY <1>1, <1>2, <1>3, <2>1, <3>1 DEF HasRunKey, Others, Keyless, Keyed
    <3>3. QED
      BY <1>1, <2>1, <3>1, <3>2, AtWorkSameKey
  <2>4. QED
    BY <2>2, <2>3
<1>11. CASE Licence(t)
  BY <1>1, <1>11, OneLicence
<1>12. CASE LicenceFails(t)
  <2>1. Moved(t, "failed") /\ UNCHANGED <<option, flagged, bad, writer, cache, source>>
    BY <1>12, GoMoves DEF LicenceFails, Typed, Place, stored, bookkeeping
  <2>2. QED
    BY <1>7, <2>1
<1>13. QED
  BY <1>4, <1>5, <1>6, <1>8, <1>9, <1>10, <1>11, <1>12 DEF prepare_drm

\* The track at work hands its file on: its key is the KID's own.
LEMMA OneDone ==
  ASSUME Typed, One, NEW t \in Running, Moved(t, "done"), track[t].at \in {"stale", "test"},
         cache = Right, track[t].file = Right, ~option.replaces => track[t].keys = Right,
         UNCHANGED <<option, flagged, bad, cache, source>>, RightIsWritten',
         report_replaced(track[t].keys),
         (\A i \in DOMAIN writer' : writer'[i].of # "licence")
           => \A i \in DOMAIN writer : writer[i].of # "licence"
  PROVE  OneRun' /\ \A u \in Tracks : HasRunKey(u)'
<1>1. /\ Others(t) /\ track'[t].at = "done" /\ track'[t].file = Right /\ track'[t].same
      /\ track'[t].keys = track[t].keys /\ ~track'[t].backup /\ track'[t].then = "download"
  BY DEF Moved, HasEnded
<1>2. t \in Tracks /\ Alone' /\ FailedIsLast' /\ \A u \in Tracks : u # t => HasRunKey(u)'
  BY <1>1, RunFrame
<1>3. HasRunKey(t)'
  BY <1>1 DEF HasRunKey, Keyless, Keyed
<1>4. Provenance'
  BY DEF Provenance
<1>5. InPlaceEnds'
  BY NothingFlagged DEF InPlaceEnds
<1>6. FlagIsCleared'
  BY DEF One, OneRun, FlagIsCleared
<1>7. WillReport'
  <2>1. ASSUME ~option.replaces, NEW k \in Keys, unreported'[k] # None PROVE k = Right
    BY <2>1, RightIsAKey DEF report_replaced, ToReport
  <2>2. QED
    BY <1>1, <1>2, <2>1 DEF WillReport
<1>8. QED
  BY <1>2, <1>3, <1>4, <1>5, <1>6, <1>7 DEF OneRun

\* The track at work came back with the KID's own key, and it is written.
LEMMA OneWrites ==
  ASSUME Typed, One, NEW t \in Running, Moved(t, "decrypt"), track[t].at = "settle",
         option' = option, UNCHANGED <<cache, source>>, flagged' \subseteq flagged, bad' \subseteq bad, RightIsWritten',
         (\A i \in DOMAIN writer' : writer'[i].of # "licence")
           => \A i \in DOMAIN writer : writer[i].of # "licence"
  PROVE  OneRun' /\ \A u \in Tracks : HasRunKey(u)'
<1>1. Others(t) /\ track'[t].at = "decrypt"
  BY DEF Moved, WentOn
<1>2. t \in Tracks /\ Alone' /\ FailedIsLast' /\ \A u \in Tracks : u # t => HasRunKey(u)'
  BY <1>1, RunFrame
<1>3. HasRunKey(t)'
  BY <1>2 DEF One, HasRunKey, Keyless, Keyed, Moved, WentOn, Lasting
<1>4. Provenance'
  BY DEF One, OneRun, Provenance
<1>5. InPlaceEnds'
  BY <1>2 DEF InPlaceEnds, One, HasRunKey
<1>6. FlagIsCleared'
  BY <1>1, <1>2 DEF One, OneRun, FlagIsCleared
<1>7. WillReport'
  BY <1>1, <1>2 DEF WillReport
<1>8. QED
  BY <1>2, <1>3, <1>4, <1>5, <1>6, <1>7 DEF OneRun

\* What the track at work has when no vault's key is to be judged.
LEMMA OwnKey ==
  ASSUME Typed, One, NEW t \in Tracks, track[t].at = "stale", track[t].judged = None
  PROVE  cache = Right /\ track[t].file = Right /\ (track[t].same => track[t].keys = Right)
<1>1. HasRunKey(t) /\ Provenance
  BY DEF One, OneRun
<1>2. /\ cache # None /\ track[t].file = cache
      /\ IF track[t].same THEN track[t].keys = cache ELSE cache = Right
  BY <1>1 DEF HasRunKey, Keyed
<1>3. ~FromVault(t)
  <2>1. FromVault(t) => source[2] \in Vaults /\ source[2] # None
    BY LicensingAssumption DEF FromVault, Typed, TypeOK, Pair
  <2>2. QED
    BY <1>1, <2>1 DEF HasRunKey
<1>4. cache = Right
  BY <1>1, <1>2, <1>3 DEF Provenance, FromVault
<1>5. QED
  BY <1>2, <1>4

\* The track at work knows no source of its key: it is the CDM's.
LEMMA CdmsKey ==
  ASSUME Typed, One, NEW t \in Tracks, Settling(t), HasNoSource(t)
  PROVE  track[t].keys = Right
<1>1. HasRunKey(t) /\ Provenance
  BY DEF One, OneRun
<1>2. track[t].keys = cache /\ cache # None
  BY <1>1 DEF HasRunKey, Settling, HasNoSource
<1>3. QED
  BY <1>1, <1>2 DEF Provenance, HasNoSource

LEMMA OneDrop ==
  ASSUME Typed, One, NEW t \in Running, Drop(t)
  PROVE  OneRun' /\ \A u \in Tracks : HasRunKey(u)'
<1>1. t \in Tracks /\ track[t].at = "drop" /\ UNCHANGED <<option, bad, writer>>
  BY DEF Running, Drop, stored
<1>2. Drops(t) /\ HasRunKey(t)
  BY <1>1, DropDrops DEF Typed, One
<1>3. track[t].same /\ track[t].keys = cache
  BY <1>1, <1>2 DEF HasRunKey, Keyed
<1>4. cache' = None
  BY <1>3 DEF Drop, Forget
<1>5. /\ Others(t) /\ track'[t].at = "flag" /\ track'[t].same /\ track'[t].held = None
      /\ track'[t].keys = None
  BY <1>2, <1>3 DEF Drops
<1>6. HasRunKey(t)'
  BY <1>1, <1>2, <1>4, <1>5 DEF HasRunKey, Drops, Keyless, Keyed
<1>7. Alone' /\ FailedIsLast' /\ \A u \in Tracks : u # t => HasRunKey(u)'
  BY <1>1, <1>5, RunFrame
<1>8. Provenance' /\ RightIsWritten'
  BY <1>1, <1>4 DEF Provenance, RightIsWritten, One, OneRun
<1>9. InPlaceEnds' /\ WillReport'
  BY <1>1, <1>5 DEF InPlaceEnds, WillReport
<1>10. FlagIsCleared'
  BY <1>1, <1>4, <1>5, RightIsAKey DEF FlagIsCleared
<1>11. QED
  BY <1>6, <1>7, <1>8, <1>9, <1>10 DEF OneRun

LEMMA OneFlagLocally ==
  ASSUME Typed, One, NEW t \in Running, FlagLocally(t)
  PROVE  OneRun' /\ \A u \in Tracks : HasRunKey(u)'
<1>1. t \in Tracks /\ track[t].at = "flag" /\ UNCHANGED <<option, writer, flagged, source, unreported, cache>>
  BY DEF Running, FlagLocally, bookkeeping
<1>2. HasRunKey(t)
  BY <1>1 DEF One
<1>3. cache = None /\ track[t].same /\ track[t].held = None /\ track[t].keys = None
  BY <1>1, <1>2 DEF HasRunKey
<1>4. IF track[t].backup THEN Restores(t) ELSE Moved(t, "failed")
  BY <1>1, FlagRestores DEF Typed
<1>5. Others(t) /\ track'[t].at \in {"lock", "failed"} /\ (option.in_place => track'[t].at = "failed")
  BY <1>2, <1>4 DEF Restores, Moved, HasEnded, HasRunKey
<1>6. HasRunKey(t)'
  <2>1. CASE track[t].backup
    BY <1>1, <1>2, <1>3, <1>4, <2>1 DEF HasRunKey, Restores, KeepsKeys, Keyless, Keyed
  <2>2. CASE ~track[t].backup
    BY <1>1, <1>4, <2>2, RunFailed
  <2>3. QED
    BY <2>1, <2>2
<1>7. Alone' /\ FailedIsLast' /\ \A u \in Tracks : u # t => HasRunKey(u)'
  BY <1>1, <1>5, RunFrame
<1>8. Provenance' /\ RightIsWritten'
  BY <1>1, <1>3 DEF Provenance, RightIsWritten, One, OneRun
<1>9. InPlaceEnds' /\ WillReport'
  BY <1>1, <1>5 DEF InPlaceEnds, WillReport
<1>10. FlagIsCleared'
  BY <1>1, <1>3, <1>5, RightIsAKey DEF FlagIsCleared
<1>11. QED
  BY <1>6, <1>7, <1>8, <1>9, <1>10 DEF OneRun

LEMMA OneMoves ==
  ASSUME Typed, One, NEW t \in Running, NEW to, Moves(t, to), Go(t, to)
  PROVE  OneRun' /\ \A u \in Tracks : HasRunKey(u)'
<1>1. t \in Tracks
  BY DEF Running
<1>2. Moved(t, to) /\ HasRunKey(t)
  BY <1>1, MovesMove DEF One
<1>3. CASE \/ (to = "failed" /\ (NoSourceLeft(t) \/ Retry(t))) \/ (to = "drop" /\ (Stale(t) \/ DecodeFails(t)))
           \/ (to = "test" /\ Test(t)) \/ (to = "decrypt" /\ Retry(t))
  <2>1. UNCHANGED <<option, flagged, bad, writer, cache, source>>
    BY <1>3 DEF NoSourceLeft, Stale, Test, DecodeFails, Retry, stored, bookkeeping
  <2>2. track[t].at # "flag"
    BY <1>3 DEF NoSourceLeft, Stale, Test, DecodeFails, Retry, Settling
  <2>3. Others(t) /\ track'[t].at = to
    BY <1>2 DEF Moved, HasEnded, WentOn
  <2>4. HasRunKey(t)'
    <3>1. CASE to = "failed"
      BY <1>1, <1>2, <2>1, <3>1, RunFailed
    <3>2. CASE to = "drop" /\ (Stale(t) \/ DecodeFails(t))
      <4>1. track[t].at \in {"stale", "test"} /\ track[t].same
        BY <1>2, <3>2, RightIsAKey DEF Stale, DecodeFails, HasRunKey, Keyed, Typed, TypeOK
      <4>2. QED
        BY <1>2, <2>1, <3>2, <4>1 DEF HasRunKey, Moved, WentOn, Lasting, Keyless, Keyed, FromVault
    <3>3. CASE to = "test" /\ Test(t)
      <4>1. track[t].at = "stale" /\ track[t].same
        BY <1>2, <3>3 DEF Test, HasRunKey, Keyed, FromVault
      <4>2. QED
        BY <1>2, <2>1, <3>3, <4>1 DEF HasRunKey, Moved, WentOn, Lasting, Keyless, Keyed, FromVault
    <3>4. CASE to = "decrypt" /\ Retry(t)
      BY <1>2, <2>1, <3>4 DEF HasRunKey, Moved, WentOn, Lasting, Keyless, Keyed, Retry, Settling
    <3>5. QED
      BY <1>3, <3>1, <3>2, <3>3, <3>4
  <2>5. QED
    BY <1>3, <2>1, <2>2, <2>3, <2>4, AtWorkSameKey
<1>4. CASE Trust(t) /\ to = "done"
  <2>1. cache = Right /\ track[t].file = Right /\ (track[t].same => track[t].keys = Right)
    BY <1>1, <1>4, OwnKey DEF Trust
  <2>2. ~option.replaces => track[t].keys = Right
    BY <1>2, <2>1 DEF HasRunKey
  <2>3. UNCHANGED <<option, flagged, bad, cache, source, writer>> /\ track[t].at = "stale"
    BY <1>4 DEF Trust, stored
  <2>4. report_replaced(track[t].keys)
    BY <1>4 DEF Trust
  <2>5. RightIsWritten'
    BY <2>3 DEF One, OneRun, RightIsWritten
  <2>6. Moved(t, "done")
    BY <1>2, <1>4
  <2>7. QED
    BY <2>1, <2>2, <2>3, <2>4, <2>5, <2>6, OneDone
<1>5. CASE Decodes(t) /\ to = "done"
  <2>1. cache = Right /\ track[t].file = Right /\ track[t].keys = Right
    BY <1>2, <1>5 DEF Decodes, HasRunKey, Keyed
  <2>2. UNCHANGED <<option, flagged, bad, cache, source>> /\ track[t].at = "test"
    BY <1>5 DEF Decodes, stored
  <2>3. report_replaced(track[t].keys)
    BY <1>5 DEF Decodes
  <2>4. track[t].judged \in Vaults \cup {None}
    BY <1>1 DEF Typed, TypeOK, Track
  <2>5. writer' = Append(writer, [of |-> "proof", key |-> Right, not_to |-> track[t].judged])
    BY <1>5, <2>1 DEF Decodes
  <2>6. /\ RightIsWritten'
        /\ (\A i \in DOMAIN writer' : writer'[i].of # "licence")
             => \A i \in DOMAIN writer : writer[i].of # "licence"
    BY <2>4, <2>5, Appended DEF Typed, One, OneRun
  <2>7. Moved(t, "done")
    BY <1>2, <1>5
  <2>8. QED
    BY <2>1, <2>2, <2>3, <2>6, <2>7, OneDone
<1>6. CASE (Unflag(t) \/ Replaced(t)) /\ to = "decrypt"
  <2>1. track[t].keys = Right /\ track[t].at = "settle"
    BY <1>1, <1>6, CdmsKey DEF Unflag, Replaced, Settling
  <2>2. UNCHANGED <<option, cache, source>> /\ flagged' \subseteq flagged /\ bad' \subseteq bad
    BY <1>6 DEF Unflag, Replaced, stored, bookkeeping
  <2>3. writer' = writer \/ writer' = Append(writer, [of |-> "proof", key |-> Right, not_to |-> None])
    BY <1>6, <2>1, Zenon DEF Unflag, Replaced
  <2>4. /\ RightIsWritten'
        /\ (\A i \in DOMAIN writer' : writer'[i].of # "licence")
             => \A i \in DOMAIN writer : writer[i].of # "licence"
    <3>1. CASE writer' = writer
      BY <3>1 DEF One, OneRun, RightIsWritten
    <3>2. CASE writer' # writer
      BY <2>3, <3>2, Appended DEF Typed, One, OneRun
    <3>3. QED
      BY <3>1, <3>2
  <2>5. Moved(t, "decrypt")
    BY <1>2, <1>6
  <2>6. QED
    BY <2>1, <2>2, <2>4, <2>5, OneWrites
<1>7. QED
  BY <1>3, <1>4, <1>5, <1>6 DEF Moves

LEMMA OneDecrypt ==
  ASSUME Typed, One, NEW t \in Tracks, decrypt_verified(t)
  PROVE  OneRun' /\ \A u \in Tracks : HasRunKey(u)'
<1>1. t \in Running
  BY DEF decrypt_verified, KnownBad, KeepCiphertext, Decrypt, NoSourceLeft, Stale, Trust, Test, Decodes,
         DecodeFails, Drop, FlagLocally, Unflag, Replaced, Retry, Settling, Running, Ended
<1>2. HasRunKey(t) /\ track[t] \in Track
  BY DEF One, Typed, TypeOK
<1>3. CASE KnownBad(t)
  <2>1. Takes(t) /\ track[t].at = "loaded" /\ UNCHANGED <<option, flagged, bad, writer, source>>
    BY <1>3, KnownBadTakes DEF Typed, KnownBad, stored, bookkeeping
  <2>2. track[t].held = cache /\ cache # None
    BY <1>2, <2>1 DEF HasRunKey, Keyed
  <2>3. CASE track[t].held \in flagged
    <3>1. cache' = None
      BY <1>3, <2>2, <2>3 DEF KnownBad, Forget
    <3>2. ~option.in_place
      BY <1>1, <2>1, <2>3, NothingFlagged
    <3>3. HasRunKey(t)'
      BY <1>2, <2>1, <2>3, <3>2 DEF HasRunKey, Takes, Keyless, Keyed
    <3>4. Provenance'
      BY <3>1 DEF Provenance
    <3>5. QED
      BY <1>1, <2>1, <2>3, <3>1, <3>3, <3>4, AtWork DEF Takes
  <2>4. CASE track[t].held \notin flagged
    <3>1. cache' = cache
      BY <1>3, <2>4 DEF KnownBad
    <3>2. HasRunKey(t)'
      BY <1>2, <2>1, <2>2, <2>4, <3>1 DEF HasRunKey, Takes, Keyless, Keyed
    <3>3. QED
      BY <1>1, <2>1, <2>4, <3>1, <3>2, AtWorkSameKey DEF Takes
  <2>5. QED
    BY <2>3, <2>4
<1>4. CASE KeepCiphertext(t)
  <2>1. /\ Saves(t) /\ track[t].at = "checking"
        /\ UNCHANGED <<option, flagged, bad, writer, cache, source>>
    BY <1>4, KeepSaves DEF Typed, KeepCiphertext, stored, bookkeeping
  <2>2. HasRunKey(t)'
    BY <1>2, <2>1 DEF HasRunKey, Saves, KeepsKeys, Keyless, Keyed
  <2>3. QED
    BY <1>1, <2>1, <2>2, AtWorkSameKey DEF Saves
<1>5. CASE Decrypt(t)
  <2>1. /\ Tries(t) /\ track[t].at = "decrypt"
        /\ UNCHANGED <<option, flagged, bad, writer, cache, source>>
    BY <1>5, DecryptTries DEF Typed, Decrypt, stored, bookkeeping
  <2>2. FromVault(t)' <=> FromVault(t)
    BY <2>1 DEF FromVault, Tries, KeepsKeys
  <2>3. HasRunKey(t)'
    BY <1>2, <2>1, <2>2 DEF HasRunKey, Tries, KeepsKeys, Keyless, Keyed
  <2>4. QED
    BY <1>1, <2>1, <2>3, AtWorkSameKey DEF Tries
<1>6. QED
  BY <1>1, <1>3, <1>4, <1>5, OneDrop, OneFlagLocally, OneMoves, MovesGo

\* The background writer takes the first write of its queue.
LEMMA Taken ==
  ASSUME TypeOK, writer # <<>>, writer' = Tail(writer)
  PROVE  /\ \A i \in DOMAIN writer' : i + 1 \in DOMAIN writer /\ writer'[i] = writer[i + 1]
         /\ \A i \in DOMAIN writer : i = 1 \/ i - 1 \in DOMAIN writer'
         /\ 1 \in DOMAIN writer /\ Head(writer) = writer[1]
<1>1. writer \in Seq(Write)
  BY DEF TypeOK
<1> HIDE DEF Write
<1>2. /\ writer' \in Seq(Write) /\ Len(writer') = Len(writer) - 1 /\ Len(writer) \in Nat /\ Len(writer) # 0
      /\ \A i \in 1..Len(writer') : writer'[i] = writer[i + 1]
  BY <1>1, HeadTailProperties, LenProperties, EmptySeq
<1>3. DOMAIN writer = 1..Len(writer) /\ DOMAIN writer' = 1..Len(writer')
  BY <1>1, <1>2, LenProperties
<1>4. \A i \in DOMAIN writer' : i + 1 \in DOMAIN writer /\ writer'[i] = writer[i + 1]
  BY <1>2, <1>3
<1>5. \A i \in DOMAIN writer : i = 1 \/ i - 1 \in DOMAIN writer'
  BY <1>2, <1>3
<1>6. 1 \in DOMAIN writer
  BY <1>2, <1>3
<1>7. Head(writer) = writer[1]
  BY <1>1
<1>8. QED
  BY <1>4, <1>5, <1>6, <1>7

LEMMA OneStored ==
  ASSUME Typed, One, StoreLicensed \/ StoreProved
  PROVE  OneRun' /\ \A u \in Tracks : HasRunKey(u)'
<1>1. UNCHANGED <<option, cache, source, unreported, track>> /\ writer # <<>> /\ writer' = Tail(writer)
  BY DEF StoreLicensed, StoreProved
<1>2. /\ \A i \in DOMAIN writer' : i + 1 \in DOMAIN writer /\ writer'[i] = writer[i + 1]
      /\ \A i \in DOMAIN writer : i = 1 \/ i - 1 \in DOMAIN writer'
      /\ 1 \in DOMAIN writer /\ Head(writer) = writer[1]
  BY <1>1, Taken DEF Typed
<1>3. RightIsWritten' /\ Head(writer).key = Right
  BY <1>2 DEF One, OneRun, RightIsWritten
<1>4. flagged' \subseteq flagged
  BY DEF StoreLicensed, StoreProved
<1>5. FlagIsCleared'
  <2>1. CASE StoreLicensed
    BY <1>3, <2>1 DEF StoreLicensed, FlagIsCleared
  <2>2. CASE StoreProved
    <3>1. bad' = bad /\ writer[1].of # "licence"
      BY <1>2, <2>2 DEF StoreProved
    <3>2. ASSUME \A i \in DOMAIN writer' : writer'[i].of # "licence", NEW i \in DOMAIN writer
          PROVE  writer[i].of # "licence"
      <4>1. DOMAIN writer \subseteq Int
        BY LenProperties DEF Typed, TypeOK
      <4>2. CASE i = 1
        BY <3>1, <4>2
      <4>3. CASE i # 1
        BY <1>2, <3>2, <4>1, <4>3
      <4>4. QED
        BY <4>2, <4>3
    <3>3. QED
      BY <1>1, <3>1, <3>2 DEF One, OneRun, FlagIsCleared
  <2>3. QED
    BY <2>1, <2>2
<1>6. Alone' /\ FailedIsLast' /\ Provenance' /\ WillReport'
  BY <1>1 DEF One, OneRun, Alone, FailedIsLast, Provenance, WillReport, Running, Ended
<1>7. InPlaceEnds'
  BY <1>1, <1>4 DEF One, OneRun, InPlaceEnds
<1>8. \A u \in Tracks : HasRunKey(u)'
  BY <1>1 DEF One, HasRunKey, FromVault
<1>9. QED
  BY <1>3, <1>5, <1>6, <1>7, <1>8 DEF OneRun

LEMMA OneStep ==
  ASSUME Typed, OneByOne, [Next]_vars
  PROVE  OneByOne'
<1>1. SUFFICES ASSUME OneAtATime' PROVE OneRun' /\ \A u \in Tracks : HasRunKey(u)'
  BY DEF OneByOne
<1>2. option' = option
  BY DEF vars, Next, TrackStep, prepare_drm, decrypt_verified, Begin, Skip, FromCache, FromLocal,
         FromCandidates, AskRemotes, Answer, NoAnswer, Licence, LicenceFails, remember_candidate,
         LateAnswer, KnownBad, KeepCiphertext, Decrypt, NoSourceLeft, Stale, Trust, Test, Decodes,
         DecodeFails, Drop, FlagLocally, Unflag, Replaced, Retry, StoreLicensed, StoreProved
<1>3. One
  BY <1>1, <1>2 DEF OneByOne, One, OneAtATime
<1>4. ASSUME UNCHANGED <<option, flagged, bad, cache, source, unreported, writer, track>>
      PROVE  OneRun' /\ \A u \in Tracks : HasRunKey(u)'
  <2>1. \A u \in Tracks : HasRunKey(u)'
    BY <1>3, <1>4 DEF One, HasRunKey, FromVault
  <2>2. OneRun'
    BY <1>3, <1>4 DEF One, OneRun, Alone, FailedIsLast, Provenance, RightIsWritten, InPlaceEnds,
                      FlagIsCleared, WillReport, Running, Ended
  <2>3. QED
    BY <2>1, <2>2
<1>5. CASE UNCHANGED vars \/ (\E v \in Remotes : LateAnswer(v)) \/ (\E p \in Pair : remember_candidate(p))
  BY <1>4, <1>5 DEF vars, stored, bookkeeping, LateAnswer, remember_candidate
<1>6. ASSUME NEW t \in Tracks, TrackStep(t)
      PROVE  OneRun' /\ \A u \in Tracks : HasRunKey(u)'
  BY <1>3, <1>6, OneBegin, OneSkip, OnePrepare, OneDecrypt DEF TrackStep
<1>7. QED
  BY <1>3, <1>5, <1>6, OneStored DEF Next

-----------------------------------------------------------------------------
(* The results.                                                            *)

LEMMA KeyInit == Init => KInv
<1> SUFFICES ASSUME Init PROVE KInv
  OBVIOUS
<1>1. PICK s \in Starts : option = s.option /\ rows = s.rows
  BY DEF Init
<1>2. option \in Option /\ rows \in [Vaults -> SUBSET Keys]
  BY <1>1, LicensingAssumption
<1>3. /\ \A t \in Tracks : track[t] = NewTrack
      /\ bad = {} /\ flagged = {} /\ source = None /\ candidates = <<>> /\ unreachable = {} /\ cache = None
      /\ lock = Nobody /\ late = {} /\ answers = {} /\ writer = <<>> /\ seen = {}
  BY DEF Init
<1>4. /\ NewTrack.at = "queued" /\ NewTrack.then = "download" /\ NewTrack.keys = None /\ NewTrack.held = None
      /\ NewTrack.same = TRUE /\ NewTrack.backup = FALSE /\ NewTrack.judged = None
  BY DEF NewTrack
<1>5. \A t \in Tracks : /\ track[t].at = "queued" /\ track[t].then = "download" /\ track[t].keys = None
                        /\ track[t].held = None /\ track[t].same /\ ~track[t].backup
                        /\ track[t].judged = None
  BY <1>3, <1>4
<1>6. DOMAIN writer = {}
  BY <1>3
<1>7. TypeOK
  <2>1. track \in [Tracks -> Track]
    BY NewTrackTyped DEF Init
  <2>2. unreported \in [Keys -> Remotes \cup {None}] /\ asked \in [Tracks -> SUBSET Remotes]
    BY DEF Init
  <2>3. candidates \in Seq(Pair) /\ writer \in Seq(Write)
    BY <1>3, EmptySeq
  <2>4. QED
    BY <1>2, <1>3, <2>1, <2>2, <2>3 DEF TypeOK
<1>8. Locked /\ \A t \in Tracks : Judges(t)
  BY <1>3, <1>5, LicensingAssumption DEF Locked, Judges
<1>9. UntilFlagged
  BY <1>3, <1>5 DEF UntilFlagged, OneKey, HasOneKey, Keyless, Keyed
<1>10. OneByOne
  <2>1. Running = {}
    BY <1>5 DEF Running
  <2>2. \A k \in Keys : unreported[k] = None
    BY DEF Init
  <2>3. OneRun
    BY <1>3, <1>5, <1>6, <2>1, <2>2 DEF OneRun, Alone, FailedIsLast, Provenance, RightIsWritten,
                                        InPlaceEnds, FlagIsCleared, WillReport
  <2>4. \A t \in Tracks : HasRunKey(t)
    BY <1>5 DEF HasRunKey, Keyless, Keyed
  <2>5. QED
    BY <2>3, <2>4 DEF OneByOne
<1>11. QED
  BY <1>7, <1>8, <1>9, <1>10 DEF KInv, Typed

\* Every state of the run has types, one holder of the KID's lock, and the key
\* that its tracks may rely on.
THEOREM Invariance == Spec => []KInv
<1>1. KInv /\ [Next]_vars => KInv'
  BY TypedStep, CleanStep, OneStep DEF KInv
<1>2. QED
  BY KeyInit, <1>1, PTL DEF Spec

\* The variables of the run stay in their types.
THEOREM TypeCorrect == Spec => []TypeOK
<1>1. KInv => TypeOK
  BY DEF KInv, Typed
<1>2. QED
  BY <1>1, Invariance, PTL

\* Until a track has flagged a key, every track that is handed on was decrypted with
\* the KID's own key, with any number of tracks at once (decrypt_verified over
\* Vaults.sources and LICENSE_KEY_CACHE).
THEOREM HandedOnUntilFlagged == Spec => []ProvedUntilFlagged
<1>1. KInv => ProvedUntilFlagged
  BY DEF KInv, UntilFlagged, ProvedUntilFlagged, Proved, HasOneKey
<1>2. QED
  BY <1>1, Invariance, PTL

\* With one track at a time, every track that is handed on was decrypted with the
\* KID's own key, whatever the vaults hold and whatever was flagged.
THEOREM HandedOnProved == Spec => []ProvedBeforeTrusted
<1>1. KInv => ProvedBeforeTrusted
  BY DEF KInv, OneByOne, ProvedBeforeTrusted, Proved, HasRunKey
<1>2. QED
  BY <1>1, Invariance, PTL

\* A licensed key is not left flagged when the tracks and the writes are done, with
\* one track at a time (unflag_key, cache_keys_to_vaults).
THEOREM LicenceClearsFlag == Spec => []LicensedNotFlagged
<1>1. KInv => LicensedNotFlagged
  <2> SUFFICES ASSUME KInv, OneAtATime, writer = <<>>, \A t \in Tracks : track[t].at = "done"
               PROVE  Right \notin bad
    BY DEF LicensedNotFlagged
  <2>1. FlagIsCleared
    BY DEF KInv, OneByOne, OneRun
  <2>2. DOMAIN writer = {}
    OBVIOUS
  <2>3. QED
    BY <2>1, <2>2 DEF FlagIsCleared
<1>2. QED
  BY <1>1, Invariance, PTL

\* A vault that served a flagged key is told before the tracks are done, with one
\* track at a time (report_replaced).
THEOREM FlaggedIsReported == Spec => []ReplacedIsReported
<1>1. KInv => ReplacedIsReported
  BY DEF KInv, OneByOne, OneRun, WillReport, ReplacedIsReported
<1>2. QED
  BY <1>1, Invariance, PTL

\* No step copies a key into a vault that is not the KID's own, with one track at a
\* time (add_key and add_keys behind VAULT_WRITER).
THEOREM OnlyRightIsShared == Spec => PoisonStaysPut
<1>1. KInv /\ [Next]_vars => (OneAtATime => \A v \in Vaults : rows'[v] \ rows[v] \subseteq {Right})
  <2> SUFFICES ASSUME KInv, [Next]_vars, OneAtATime, NEW v \in Vaults
               PROVE  rows'[v] \ rows[v] \subseteq {Right}
    OBVIOUS
  <2>1. CASE StoreLicensed \/ StoreProved
    <3>1. Head(writer).key = Right
      <4>1. writer # <<>> /\ writer' = Tail(writer) /\ TypeOK /\ RightIsWritten
        BY <2>1 DEF StoreLicensed, StoreProved, KInv, Typed, OneByOne, OneRun
      <4>2. QED
        BY <4>1, Taken DEF RightIsWritten
    <3>2. \E to : rows' = Pushed(Head(writer).key, to)
      BY <2>1, Zenon DEF StoreLicensed, StoreProved
    <3>3. QED
      BY <3>1, <3>2 DEF Pushed
  <2>2. CASE ~StoreLicensed /\ ~StoreProved
    <3>1. rows' = rows \/ \E k : rows' = [rows EXCEPT ![Local] = @ \ {k}]
      <4>1. ASSUME NEW t \in Tracks, FlagLocally(t)
            PROVE  rows' = rows \/ \E k : rows' = [rows EXCEPT ![Local] = @ \ {k}]
        BY <4>1 DEF FlagLocally, stored
      <4>2. (\A t \in Tracks : ~FlagLocally(t)) => rows' = rows
        BY <2>2
        DEF Next, vars, stored, TrackStep, prepare_drm, decrypt_verified, Begin, Skip, FromCache,
            FromLocal, FromCandidates, AskRemotes, Answer, NoAnswer, Licence, LicenceFails,
            remember_candidate, LateAnswer, KnownBad, KeepCiphertext, Decrypt, NoSourceLeft, Stale, Trust,
            Test, Decodes, DecodeFails, Drop, Unflag, Replaced, Retry
      <4>3. QED
        BY <4>1, <4>2
    <3>2. rows \in [Vaults -> SUBSET Keys]
      BY DEF KInv, Typed, TypeOK
    <3>3. QED
      BY <3>1, <3>2
  <2>3. QED
    BY <2>1, <2>2
<1>2. QED
  BY <1>1, Invariance, PTL DEF Spec, PoisonStaysPut

-----------------------------------------------------------------------------
(* The retries of a bad key run out: each step of a track lowers its       *)
(* budget, and no step of anyone else raises it.                           *)

\* Within a pass: how far a track is from its next decryption, by where it is and
\* what it goes on with when it has a key.
Base(then) == IF then = "download" THEN 19 ELSE IF then = "decrypt" THEN 13 ELSE 9
PhaseOf(at, then) ==
  CASE at = "stale"     -> 23
    [] at = "test"      -> 22
    [] at = "drop"      -> 21
    [] at \in {"queued", "flag"} -> 20
    [] at = "lock"      -> Base(then)
    [] at = "search"    -> Base(then) - 1
    [] at = "challenge" -> Base(then) - 2
    [] at = "loaded"    -> 16
    [] at = "checking"  -> 10
    [] at = "settle"    -> 6
    [] at = "decrypt"   -> 5
    [] at \in {"done", "failed"} -> 0

MaxPasses == Cardinality(option.remotes) + 2

\* Whether the track is still to end; passes; what is left of a pass; and vaults
\* whose answer it waits for.
TrackBudget(t) == <<IF Ended(t) THEN 0 ELSE 1, MaxPasses - track[t].passes,
                    PhaseOf(track[t].at, track[t].then), Cardinality(asked[t])>>

Less  == OpToRel(<, Nat)
Lower(k) == LexProductOrdering(Less, Nat, k)

\* The order has no infinite descent.
LEMMA LowerIsWellFounded == ASSUME NEW k \in Nat PROVE IsWellFoundedOn(Lower(k), [1..k -> Nat])
<1>1. IsWellFoundedOn(Less, Nat)
  BY NatLessThanWellFounded DEF Less
<1>2. QED
  BY <1>1, WFLexProductOrdering DEF Lower

\* A budget is lowered at the first place where it differs.
FirstLower(m, n, j, k) == /\ m \in [1..k -> Nat] /\ n \in [1..k -> Nat]
                          /\ \A i \in 1..k : i < j => m[i] = n[i]
                          /\ m[j] < n[j]

LEMMA Lowers ==
  ASSUME NEW k \in Nat, NEW m, NEW n, NEW j \in 1..k, FirstLower(m, n, j, k)
  PROVE  <<m, n>> \in Lower(k)
<1>1. <<m[j], n[j]>> \in Less
  BY DEF FirstLower, Less, OpToRel
<1>2. \A i \in 1..(j - 1) : m[i] = n[i]
  BY DEF FirstLower
<1>3. QED
  BY <1>1, <1>2 DEF Lower, LexProductOrdering, FirstLower

\* The guard of decrypt_verified's loop.
Paced == \A t \in Tracks : track[t].passes <= MaxPasses

Budgeted == \A t \in Tracks : TrackBudget(t) \in [1..4 -> Nat]

LEMMA MaxPassesTyped == ASSUME TypeOK PROVE MaxPasses \in Nat
<1>1. option.remotes \in SUBSET Remotes
  BY DEF TypeOK, Option
<1>2. Cardinality(option.remotes) \in Nat
  BY <1>1, LicensingAssumption, FS_Subset, FS_CardinalityType
<1>3. QED
  BY <1>2 DEF MaxPasses

LEMMA AskedFinite ==
  ASSUME TypeOK, NEW t \in Tracks PROVE IsFiniteSet(asked[t]) /\ Cardinality(asked[t]) \in Nat
<1>1. asked[t] \in SUBSET Remotes
  BY DEF TypeOK
<1>2. QED
  BY <1>1, LicensingAssumption, FS_Subset, FS_CardinalityType

LEMMA PhaseTyped == ASSUME NEW at \in Place, NEW then PROVE PhaseOf(at, then) \in Nat
BY DEF PhaseOf, Base, Place

LEMMA BudgetTyped == ASSUME TypeOK, Paced PROVE Budgeted
<1> SUFFICES ASSUME NEW t \in Tracks PROVE TrackBudget(t) \in [1..4 -> Nat]
  BY DEF Budgeted
<1>1. track[t] \in Track
  BY DEF TypeOK
<1>2. track[t].at \in Place /\ track[t].passes \in Nat
  BY <1>1 DEF Track, Place
<1>3. MaxPasses - track[t].passes \in Nat
  BY <1>2, MaxPassesTyped DEF Paced
<1>4. PhaseOf(track[t].at, track[t].then) \in Nat /\ Cardinality(asked[t]) \in Nat
  BY <1>2, PhaseTyped, AskedFinite
<1>5. QED
  BY <1>3, <1>4 DEF TrackBudget

\* A step of a track touches no other track's budget.
Aside(t) == /\ option' = option /\ Others(t)
            /\ \A u \in Tracks : u # t => asked'[u] = asked[u]

\* The ways in which a step takes its track on.
Ends(t)  == track'[t].at \in {"done", "failed"} /\ track'[t].passes = 0
Turns(t) == /\ track'[t].at \notin {"done", "failed"}
            /\ track'[t].passes = track[t].passes + 1 /\ track'[t].passes <= MaxPasses
Nears(t) == /\ track'[t].at \notin {"done", "failed"} /\ track'[t].passes = track[t].passes
            /\ PhaseOf(track'[t].at, track'[t].then) < PhaseOf(track[t].at, track[t].then)
Awaits(t) == track' = track /\ Cardinality(asked'[t]) < Cardinality(asked[t])

Advances(t) == Aside(t) /\ ~Ended(t) /\ (Ends(t) \/ Turns(t) \/ Nears(t) \/ Awaits(t))

LEMMA MovedNears ==
  ASSUME NEW t \in Tracks, NEW to, Moved(t, to)
  PROVE  /\ Others(t)
         /\ to \in {"done", "failed"} => Ends(t)
         /\ to \notin {"done", "failed"} /\ PhaseOf(to, track[t].then) < PhaseOf(track[t].at, track[t].then)
              => Nears(t)
<1>1. CASE to \in {"done", "failed"}
  BY <1>1 DEF Moved, HasEnded, Ends
<1>2. CASE to \notin {"done", "failed"}
  BY <1>2 DEF Moved, WentOn, Lasting, Nears
<1>3. QED
  BY <1>1, <1>2

\* With a key, a thread is past the lock.
LEMMA ResumedNears ==
  ASSUME TypeOK, NEW t \in Tracks, track[t].at \in {"lock", "search", "challenge"},
         track'[t].at = Resumes(t), track'[t].then = track[t].then, track'[t].passes = track[t].passes
  PROVE  Nears(t)
<1>1. track[t].then \in {"download", "decrypt", "settle"}
  BY DEF TypeOK, Track
<1>2. /\ Resumes(t) \notin {"done", "failed"}
      /\ PhaseOf(Resumes(t), track[t].then) < PhaseOf(track[t].at, track[t].then)
  BY <1>1 DEF Resumes, PhaseOf, Base
<1>3. QED
  BY <1>2 DEF Nears

LEMMA GotNears ==
  ASSUME TypeOK, NEW t \in Tracks, NEW k, Got(t, k), track[t].at \in {"lock", "search", "challenge"}
  PROVE  Others(t) /\ Nears(t)
BY ResumedNears DEF Got, Lasting

LEMMA FoundNears ==
  ASSUME TypeOK, NEW t \in Tracks, NEW k \in Keys, NEW v, Found(t, k, v),
         track[t].at \in {"lock", "search", "challenge"}
  PROVE  Others(t) /\ Nears(t)
<1>1. Got(t, k)
  BY GiveGets DEF Found
<1>2. QED
  BY <1>1, GotNears

LEMMA NoKeyNears ==
  ASSUME Typed, NEW t \in Tracks, NoKey(t), lock \in {t, Nobody}, track[t].at \in {"lock", "search"}
  PROVE  Others(t) /\ ~Ended(t) /\ (Ends(t) \/ Nears(t))
<1>1. PICK to \in {"challenge", "failed"} : Moved(t, to)
  BY NoKeyLocks
<1>2. track[t].then \in {"download", "decrypt", "settle"}
  BY DEF Typed, TypeOK, Track
<1>3. PhaseOf("challenge", track[t].then) < PhaseOf(track[t].at, track[t].then)
  BY <1>2 DEF PhaseOf, Base
<1>4. QED
  BY <1>1, <1>3, MovedNears DEF Ended

LEMMA BeginAdvances == ASSUME Typed, NEW t \in Tracks, Begin(t) \/ Skip(t) PROVE Advances(t)
<1>1. track[t].at = "queued" /\ option' = option /\ asked' = asked
  BY DEF Begin, Skip, search
<1>2. PhaseOf("lock", track[t].then) < PhaseOf("queued", track[t].then)
  BY DEF PhaseOf, Base
<1>3. PICK to \in {"lock", "failed"} : Moved(t, to)
  <2>1. Go(t, "lock") \/ Go(t, "failed")
    BY DEF Begin, Skip
  <2>2. QED
    BY <2>1, GoMoves DEF Place, Typed
<1>4. QED
  BY <1>1, <1>2, <1>3, MovedNears DEF Advances, Aside, Ended

LEMMA FromCacheAdvances == ASSUME Typed, NEW t \in Tracks, FromCache(t) PROVE Advances(t)
<1>1. track[t].at = "lock" /\ option' = option /\ asked' = asked
  BY DEF FromCache, AtLock, search
<1>2. Got(t, cache)
  BY GiveGets DEF FromCache, Typed, TypeOK
<1>3. QED
  BY <1>1, <1>2, GotNears DEF Advances, Aside, Ended, Typed

LEMMA FromVaultAdvances ==
  ASSUME Typed, NEW t \in Tracks, FromLocal(t) \/ FromCandidates(t) PROVE Advances(t)
<1>1. track[t].at = "lock" /\ option' = option /\ asked' = asked
  BY DEF FromLocal, FromCandidates, Searches, AtLock, search
<1>2. CASE FromLocal(t)
  <2>1. PICK k \in Answerable(Local) : Found(t, k, Local)
    BY <1>2 DEF FromLocal
  <2>2. k \in Keys
    BY DEF Answerable, Typed, TypeOK, Vaults
  <2>3. QED
    BY <1>1, <2>1, <2>2, FoundNears DEF Advances, Aside, Ended, Typed
<1>3. CASE FromCandidates(t)
  <2>1. FirstUsable[1] \in Keys /\ Found(t, FirstUsable[1], FirstUsable[2])
    BY <1>3, FirstUsableIsPair DEF FromCandidates, Typed, Pair
  <2>2. QED
    BY <1>1, <2>1, FoundNears DEF Advances, Aside, Ended, Typed
<1>4. QED
  BY <1>2, <1>3

LEMMA AskRemotesAdvances == ASSUME Typed, NEW t \in Tracks, AskRemotes(t) PROVE Advances(t)
<1>1. track[t].at = "lock" /\ lock = Nobody /\ option' = option
  BY DEF AskRemotes, Searches, AtLock
<1>2. \A u \in Tracks : u # t => asked'[u] = asked[u]
  BY DEF AskRemotes, Typed, TypeOK
<1>3. Others(t) /\ (Ends(t) \/ Nears(t))
  <2>1. CASE live = {}
    BY <1>1, <2>1, NoKeyNears DEF AskRemotes
  <2>2. CASE live # {}
    <3>1. Moved(t, "search")
      BY <2>2, GoMoves DEF Typed, Place, AskRemotes
    <3>2. track[t].then \in {"download", "decrypt", "settle"}
      BY DEF Typed, TypeOK, Track
    <3>3. PhaseOf("search", track[t].then) < PhaseOf("lock", track[t].then)
      BY <3>2 DEF PhaseOf, Base
    <3>4. QED
      BY <1>1, <3>1, <3>3, MovedNears
  <2>3. QED
    BY <2>1, <2>2
<1>4. QED
  BY <1>1, <1>2, <1>3 DEF Advances, Aside, Ended

LEMMA AnswerAdvances == ASSUME Typed, NEW t \in Tracks, NEW v \in Remotes, Answer(t, v) PROVE Advances(t)
<1>1. PICK k \in Answerable(v) : Found(t, k, v)
  BY DEF Answer
<1>2. k \in Keys
  BY DEF Answerable, Typed, TypeOK, Vaults
<1>3. track[t].at = "search" /\ option' = option /\ \A u \in Tracks : u # t => asked'[u] = asked[u]
  BY DEF Answer, Typed, TypeOK
<1>4. QED
  BY <1>1, <1>2, <1>3, FoundNears DEF Advances, Aside, Ended, Typed

LEMMA NoAnswerAdvances ==
  ASSUME Typed, NEW t \in Tracks, NEW v \in Remotes, NoAnswer(t, v) PROVE Advances(t)
<1>1. track[t].at = "search" /\ option' = option /\ lock = t
  BY DEF NoAnswer, Typed, Locked
<1>2. /\ asked'[t] = asked[t] \ {v} /\ v \in asked[t]
      /\ \A u \in Tracks : u # t => asked'[u] = asked[u]
  BY DEF NoAnswer, Typed, TypeOK
<1>3. CASE asked[t] = {v}
  <2>1. Others(t) /\ (Ends(t) \/ Nears(t))
    BY <1>1, <1>3, NoKeyNears DEF NoAnswer
  <2>2. QED
    BY <1>1, <1>2, <2>1 DEF Advances, Aside, Ended
<1>4. CASE asked[t] # {v}
  <2>1. track' = track
    BY <1>4 DEF NoAnswer
  <2>2. Cardinality(asked'[t]) = Cardinality(asked[t]) - 1 /\ Cardinality(asked[t]) \in Nat
    BY <1>2, AskedFinite, FS_RemoveElement DEF Typed
  <2>3. QED
    BY <1>1, <1>2, <2>1, <2>2 DEF Advances, Aside, Ended, Others, Awaits
<1>5. QED
  BY <1>3, <1>4

LEMMA LicenceAdvances ==
  ASSUME Typed, NEW t \in Tracks, Licence(t) \/ LicenceFails(t) PROVE Advances(t)
<1>1. track[t].at = "challenge" /\ option' = option /\ asked' = asked
  BY DEF Licence, LicenceFails, search
<1>2. CASE Licence(t)
  <2>1. Others(t) /\ track'[t].at = Resumes(t) /\ track'[t].then = track[t].then
        /\ track'[t].passes = track[t].passes
    BY <1>2, LicenceGives DEF Typed, Replaces, Got, Lasting
  <2>2. QED
    BY <1>1, <2>1, ResumedNears DEF Advances, Aside, Ended, Typed
<1>3. CASE LicenceFails(t)
  <2>1. Moved(t, "failed")
    BY <1>3, GoMoves DEF LicenceFails, Typed, Place
  <2>2. QED
    BY <1>1, <2>1, MovedNears DEF Advances, Aside, Ended
<1>4. QED
  BY <1>2, <1>3

LEMMA TakeAdvances ==
  ASSUME Typed, NEW t \in Tracks, KnownBad(t) \/ KeepCiphertext(t) PROVE Advances(t)
<1>1. track[t].at \in {"loaded", "checking"} /\ option' = option /\ asked' = asked
  BY DEF KnownBad, KeepCiphertext, search
<1>2. CASE KnownBad(t)
  <2>1. Takes(t) /\ track[t].at = "loaded"
    BY <1>2, KnownBadTakes DEF Typed, KnownBad
  <2>2. Others(t) /\ track'[t].passes = track[t].passes
    BY <2>1 DEF Takes
  <2>3. \/ track'[t].at = "lock" /\ track'[t].then = "decrypt"
        \/ track'[t].at = "checking"
    BY <2>1 DEF Takes
  <2>4. PhaseOf(track'[t].at, track'[t].then) < PhaseOf(track[t].at, track[t].then)
    BY <2>1, <2>3 DEF PhaseOf, Base
  <2>5. QED
    BY <1>1, <2>2, <2>3, <2>4 DEF Advances, Aside, Ended, Nears
<1>3. CASE KeepCiphertext(t)
  <2>1. Others(t) /\ track'[t].passes = track[t].passes /\ track'[t].at = "decrypt" /\ track[t].at = "checking"
    BY <1>3, KeepSaves DEF Typed, Saves, KeepCiphertext
  <2>2. PhaseOf(track'[t].at, track'[t].then) < PhaseOf(track[t].at, track[t].then)
    BY <2>1 DEF PhaseOf
  <2>3. QED
    BY <1>1, <2>1, <2>2 DEF Advances, Aside, Ended, Nears
<1>4. QED
  BY <1>2, <1>3

LEMMA DecryptAdvances == ASSUME Typed, NEW t \in Tracks, Decrypt(t) PROVE Advances(t)
<1>1. track[t].at = "decrypt" /\ track[t].passes < MaxPasses /\ option' = option /\ asked' = asked
  BY DEF Decrypt, passes_left, MaxPasses, search
<1>2. Others(t) /\ track'[t].at = "stale" /\ track'[t].passes = track[t].passes + 1
  BY DecryptTries DEF Typed, Tries
<1>3. track[t].passes \in Nat /\ MaxPasses \in Nat
  BY MaxPassesTyped DEF Typed, TypeOK, Track
<1>4. Turns(t)
  BY <1>1, <1>2, <1>3 DEF Turns
<1>5. QED
  BY <1>1, <1>2, <1>4 DEF Advances, Aside, Ended

LEMMA FlagAdvances ==
  ASSUME Typed, NEW t \in Tracks, Drop(t) \/ FlagLocally(t) PROVE Advances(t)
<1>1. track[t].at \in {"drop", "flag"} /\ option' = option /\ asked' = asked
  BY DEF Drop, FlagLocally, search
<1>2. CASE Drop(t)
  <2>1. Others(t) /\ track'[t].passes = track[t].passes /\ track'[t].at = "flag" /\ track[t].at = "drop"
    BY <1>2, DropDrops DEF Typed, Drops, Drop
  <2>2. PhaseOf(track'[t].at, track'[t].then) < PhaseOf(track[t].at, track[t].then)
    BY <2>1 DEF PhaseOf
  <2>3. QED
    BY <1>1, <2>1, <2>2 DEF Advances, Aside, Ended, Nears
<1>3. CASE FlagLocally(t) /\ track[t].backup
  <2>1. Restores(t) /\ track[t].at = "flag"
    BY <1>3, FlagRestores DEF Typed, FlagLocally
  <2>2. Others(t) /\ track'[t].passes = track[t].passes /\ track'[t].at = "lock" /\ track'[t].then = "settle"
    BY <2>1 DEF Restores
  <2>3. PhaseOf(track'[t].at, track'[t].then) < PhaseOf(track[t].at, track[t].then)
    BY <2>1, <2>2 DEF PhaseOf, Base
  <2>4. QED
    BY <1>1, <2>2, <2>3 DEF Advances, Aside, Ended, Nears
<1>4. CASE FlagLocally(t) /\ ~track[t].backup
  <2>1. Moved(t, "failed")
    BY <1>4, FlagRestores DEF Typed
  <2>2. QED
    BY <1>1, <2>1, MovedNears DEF Advances, Aside, Ended
<1>5. QED
  BY <1>2, <1>3, <1>4

LEMMA MovesAdvances ==
  ASSUME Typed, NEW t \in Tracks, NEW to, Moves(t, to), Go(t, to) PROVE Advances(t)
<1>1. Moved(t, to)
  BY MovesMove
<1>2. option' = option /\ asked' = asked
  BY DEF Moves, NoSourceLeft, Stale, Trust, Test, Decodes, DecodeFails, Unflag, Replaced, Retry, search
<1>3. \/ to \in {"done", "failed"} /\ track[t].at \in {"decrypt", "stale", "test", "settle"}
      \/ to = "drop" /\ track[t].at \in {"stale", "test"}
      \/ to = "test" /\ track[t].at = "stale"
      \/ to = "decrypt" /\ track[t].at = "settle"
  BY DEF Moves, NoSourceLeft, Stale, Trust, Test, Decodes, DecodeFails, Unflag, Replaced, Retry, Settling
<1>4. to \notin {"done", "failed"} => PhaseOf(to, track[t].then) < PhaseOf(track[t].at, track[t].then)
  BY <1>3 DEF PhaseOf
<1>5. QED
  BY <1>1, <1>2, <1>3, <1>4, MovedNears DEF Advances, Aside, Ended

LEMMA StepAdvances == ASSUME Typed, NEW t \in Tracks, TrackStep(t) PROVE Advances(t)
<1>1. CASE Begin(t) \/ Skip(t)
  BY <1>1, BeginAdvances
<1>2. CASE prepare_drm(t)
  BY <1>2, FromCacheAdvances, FromVaultAdvances, AskRemotesAdvances, AnswerAdvances, NoAnswerAdvances,
     LicenceAdvances DEF prepare_drm
<1>3. CASE decrypt_verified(t)
  BY <1>3, MovesGo, MovesAdvances, TakeAdvances, DecryptAdvances, FlagAdvances
<1>4. QED
  BY <1>1, <1>2, <1>3 DEF TrackStep

\* A track that advances has a lower budget.
LEMMA AdvanceLowers ==
  ASSUME TypeOK, Paced, NEW t \in Tracks, Advances(t), Budgeted, Budgeted'
  PROVE  <<TrackBudget(t)', TrackBudget(t)>> \in Lower(4)
<1> DEFINE b == TrackBudget(t)
           c == TrackBudget(t)'
<1>1. /\ b[1] = 1 /\ b[2] = MaxPasses - track[t].passes
      /\ b[3] = PhaseOf(track[t].at, track[t].then) /\ b[4] = Cardinality(asked[t])
  BY DEF TrackBudget, Advances
<1>2. MaxPasses' = MaxPasses
  BY DEF MaxPasses, Advances, Aside
<1>3. /\ c[1] = (IF track'[t].at \in {"done", "failed"} THEN 0 ELSE 1)
      /\ c[2] = MaxPasses - track'[t].passes
      /\ c[3] = PhaseOf(track'[t].at, track'[t].then) /\ c[4] = Cardinality(asked'[t])
  BY <1>2 DEF TrackBudget, Ended, PhaseOf, Base
<1>4. b \in [1..4 -> Nat] /\ c \in [1..4 -> Nat]
  BY DEF Budgeted
<1>5. MaxPasses \in Nat /\ track[t].passes \in Nat
  BY MaxPassesTyped DEF TypeOK, Track
<1>6. b = TrackBudget(t) /\ c = TrackBudget(t)'
  OBVIOUS
<1> HIDE DEF b, c
<1>7. SUFFICES \E j \in 1..4 : FirstLower(c, b, j, 4)
  BY <1>6, Lowers
<1>8. CASE Ends(t)
  <2>1. FirstLower(c, b, 1, 4)
    BY <1>1, <1>3, <1>4, <1>8 DEF Ends, FirstLower
  <2>2. QED
    BY <2>1
<1>9. CASE Turns(t)
  <2>1. FirstLower(c, b, 2, 4)
    BY <1>1, <1>3, <1>4, <1>5, <1>9 DEF Turns, FirstLower
  <2>2. QED
    BY <2>1
<1>10. CASE Nears(t)
  <2>1. FirstLower(c, b, 3, 4)
    BY <1>1, <1>3, <1>4, <1>10 DEF Nears, FirstLower
  <2>2. QED
    BY <2>1
<1>11. CASE Awaits(t)
  <2>1. track[t].at \notin {"done", "failed"}
    BY DEF Advances, Ended
  <2>2. FirstLower(c, b, 4, 4)
    BY <1>1, <1>3, <1>4, <1>11, <2>1 DEF Awaits, FirstLower
  <2>3. QED
    BY <2>2
<1>12. QED
  BY <1>8, <1>9, <1>10, <1>11 DEF Advances

\* Whoever is not the track leaves its budget alone.
LEMMA AsideKeeps ==
  ASSUME NEW t \in Tracks, option' = option, track'[t] = track[t], asked'[t] = asked[t]
  PROVE  TrackBudget(t)' = TrackBudget(t)
BY DEF TrackBudget, Ended, MaxPasses, PhaseOf, Base

LEMMA OtherSteps ==
  ASSUME [Next]_vars, \A t \in Tracks : ~TrackStep(t)
  PROVE  option' = option /\ track' = track /\ asked' = asked
BY DEF Next, vars, search, LateAnswer, remember_candidate, StoreLicensed, StoreProved

LEMMA PacedInit == Init => Paced
<1> SUFFICES ASSUME Init PROVE Paced
  OBVIOUS
<1>1. TypeOK
  BY KeyInit DEF KInv, Typed
<1>2. \A t \in Tracks : track[t].passes = 0
  BY DEF Init, NewTrack
<1>3. QED
  BY <1>1, <1>2, MaxPassesTyped DEF Paced

LEMMA PacedStep == ASSUME Typed, Paced, [Next]_vars PROVE Paced'
<1>1. MaxPasses \in Nat
  BY MaxPassesTyped DEF Typed
<1>2. ASSUME NEW t \in Tracks, Advances(t) PROVE Paced'
  <2>1. MaxPasses' = MaxPasses /\ Others(t)
    BY <1>2 DEF MaxPasses, Advances, Aside
  <2>2. track'[t].passes <= MaxPasses
    BY <1>1, <1>2 DEF Advances, Ends, Turns, Nears, Awaits, Paced
  <2>3. QED
    BY <2>1, <2>2 DEF Paced, Others
<1>3. CASE \A t \in Tracks : ~TrackStep(t)
  BY <1>3, OtherSteps DEF Paced, MaxPasses
<1>4. QED
  BY <1>2, <1>3, StepAdvances

\* The budget of a track, and what a step does to it.
Lowered(t) == <<TrackBudget(t)', TrackBudget(t)>> \in Lower(4)

LEMMA StepLowers ==
  ASSUME Typed, Paced, [Next]_vars, Budgeted, Budgeted', NEW t \in Tracks
  PROVE  (TrackStep(t) => Lowered(t)) /\ (Lowered(t) \/ TrackBudget(t)' = TrackBudget(t))
<1>1. ASSUME TrackStep(t) PROVE Lowered(t)
  BY <1>1, StepAdvances, AdvanceLowers DEF Typed, Lowered
<1>2. ASSUME NEW u \in Tracks, u # t, TrackStep(u) PROVE TrackBudget(t)' = TrackBudget(t)
  BY <1>2, StepAdvances, AsideKeeps DEF Advances, Aside, Others
<1>3. CASE \A u \in Tracks : ~TrackStep(u)
  BY <1>3, OtherSteps, AsideKeeps
<1>4. QED
  BY <1>1, <1>2, <1>3

\* No track goes round for ever: every step of its thread lowers its budget, which
\* nobody else's step raises, and no budget can be lowered for ever.  What bounds
\* the retries of a bad key is the guard on the passes of decrypt_verified; keys that
\* several tracks flag, drop and find again do not get round it.
THEOREM RetriesRunOut ==
  /\ IsWellFoundedOn(Lower(4), [1..4 -> Nat])
  /\ Spec => []Budgeted
  /\ Spec => [][\A t \in Tracks : /\ TrackStep(t) => Lowered(t)
                                  /\ Lowered(t) \/ UNCHANGED TrackBudget(t)]_vars
<1>1. Typed /\ Paced /\ [Next]_vars => Paced'
  BY PacedStep
<1>2. KInv => Typed
  BY DEF KInv
<1>3. Spec => []Paced
  BY PacedInit, Invariance, <1>1, <1>2, PTL DEF Spec
<1>4. KInv /\ Paced => Budgeted
  BY BudgetTyped DEF KInv, Typed
<1>5. Spec => []Budgeted
  BY <1>3, <1>4, Invariance, PTL
<1>6. Typed /\ Paced /\ Budgeted /\ Budgeted' /\ [Next]_vars =>
        \A t \in Tracks : /\ TrackStep(t) => Lowered(t)
                          /\ Lowered(t) \/ UNCHANGED TrackBudget(t)
  BY StepLowers
<1>7. Spec => [][\A t \in Tracks : /\ TrackStep(t) => Lowered(t)
                                   /\ Lowered(t) \/ UNCHANGED TrackBudget(t)]_vars
  BY <1>2, <1>3, <1>5, <1>6, Invariance, PTL DEF Spec
<1>8. QED
  BY <1>5, <1>7, LowerIsWellFounded
=============================================================================
