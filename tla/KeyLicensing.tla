---------------------------- MODULE KeyLicensing ----------------------------
(***************************************************************************)
(* Content keys of one title: how the tracks that share a KID get its key  *)
(* (dl.prepare_drm in unshackle/commands/dl.py over Vaults in              *)
(* unshackle/core/vaults.py), and how a key that came from a vault is      *)
(* proved before it is trusted (dl.decrypt_verified).                      *)
(*                                                                         *)
(* Every track runs in a thread of its own, up to --downloads at a time.   *)
(* prepare_drm holds the lock of the KID, decrypt_verified holds none: an  *)
(* action of a track is what it does between two touches of the run cache, *)
(* of Vaults' dictionaries or of the network.  The queries of a search run *)
(* in threads that outlive it, the pushes to vaults in a single background *)
(* thread.  FFmpeg judges a wrong key wrong, and may fail on a right one.  *)
(***************************************************************************)
EXTENDS Naturals, Sequences, FiniteSets

CONSTANTS
  TrackCount,  \* how many tracks of a title are encrypted under one KID
  Remotes,     \* the vaults that are asked over the network
  Local,       \* the SQLite vault
  Right,       \* the KID's content key
  Wrong,       \* the keys a poisoned vault may hold
  Starts,      \* how a run may be started, and what the vaults hold then
  None,
  Nobody       \* the lock is free

Tracks == 1..TrackCount
Vaults == Remotes \cup {Local}
Keys   == Wrong \cup {Right}

\* What the command line and the tracks decide.
Option == [downloads : 1..TrackCount,  \* --downloads: the tracks that run at a time
           remotes : SUBSET Remotes,   \* the remote vaults that are configured
           licence : BOOLEAN,      \* FALSE under --vaults-only
           in_place : BOOLEAN,     \* segments were decrypted as they came
           replaces : BOOLEAN,     \* a Widevine licence replaces the dictionary of keys
           doubtful : BOOLEAN]     \* the decode check may fail on a right key

ASSUME LicensingAssumption ==
  /\ TrackCount \in Nat \ {0} /\ IsFiniteSet(Remotes)
  /\ Local \notin Remotes /\ Right \notin Wrong
  /\ Starts \subseteq [option : Option, rows : [Vaults -> SUBSET Keys]]
  /\ None \notin Keys /\ None \notin Vaults /\ None \notin Keys \X Vaults /\ Nobody \notin Tracks

VARIABLES
  option,      \* how the run was started: a member of Option
  rows,        \* the keys a vault stores for the KID
  bad,         \* the local vault's bad_keys
  flagged,     \* Vaults.flagged
  source,      \* Vaults.sources: the pair last returned, as <<key, vault>>
  candidates,  \* Vaults.candidates
  unreported,  \* Vaults.unreported: for a flagged key, the vault that will hear of it
  unreachable, \* Vaults.unreachable
  cache,       \* LICENSE_KEY_CACHE
  lock,        \* who holds the KID's lock
  asked,       \* remote vaults a track's search waits for
  late,        \* queries of searches that have returned
  answers,     \* answers whose done callback has not run
  writer,      \* the queue of VAULT_WRITER
  track,       \* the state of each track's thread
  seen         \* what has happened: "licensed", "flagged" (observed)

bookkeeping == <<flagged, source, candidates, unreported, unreachable>>
search      == <<asked, late, answers>>
stored      == <<rows, bad>>
vars == <<option, stored, bookkeeping, cache, lock, search, writer, track, seen>>

-----------------------------------------------------------------------------
\* keys is the dictionary decrypt_verified took hold of, held the one the DRM
\* object has now; same says that they are one object.
Track == [at : {"queued", "lock", "search", "challenge", "loaded", "checking", "decrypt",
                "stale", "test", "drop", "flag", "settle", "done", "failed"},
          then : {"download", "decrypt", "settle"},
          keys : Keys \cup {None}, held : Keys \cup {None}, same : BOOLEAN,
          file : Keys \cup {None},         \* the key the file was decrypted with
          backup : BOOLEAN,                \* the .enc hard link
          judged : Vaults \cup {None},     \* the vault whose key this pass judges
          dropped : Keys \cup {None}, passes : Nat]

NewTrack == [at |-> "queued", then |-> "download", keys |-> None, held |-> None, same |-> TRUE,
             file |-> None, backup |-> FALSE, judged |-> None, dropped |-> None, passes |-> 0]

Write == [of : {"licence", "proof"}, key : Keys, not_to : Vaults \cup {None}]
Pair  == Keys \X Vaults

TypeOK ==
  /\ option \in Option
  /\ rows \in [Vaults -> SUBSET Keys]
  /\ bad \in SUBSET Keys /\ flagged \in SUBSET Keys
  /\ source \in Pair \cup {None}
  /\ candidates \in Seq(Pair)
  /\ unreported \in [Keys -> Remotes \cup {None}]
  /\ unreachable \in SUBSET Remotes
  /\ cache \in Keys \cup {None}
  /\ lock \in Tracks \cup {Nobody}
  /\ asked \in [Tracks -> SUBSET Remotes] /\ late \in SUBSET Remotes
  /\ answers \in SUBSET Pair
  /\ writer \in Seq(Write)
  /\ track \in [Tracks -> Track]
  /\ seen \subseteq {"licensed", "flagged"}

Init ==
  /\ \E s \in Starts : option = s.option /\ rows = s.rows
  /\ bad = {} /\ flagged = {}
  /\ source = None /\ candidates = <<>>
  /\ unreported = [k \in Keys |-> None]
  /\ unreachable = {}
  /\ cache = None /\ lock = Nobody
  /\ asked = [t \in Tracks |-> {}] /\ late = {} /\ answers = {}
  /\ writer = <<>>
  /\ track = [t \in Tracks |-> NewTrack]
  /\ seen = {}

-----------------------------------------------------------------------------
(* Pieces of Vaults.                                                       *)

live == option.remotes \ unreachable

\* What query_vault may answer: a flagged pair counts as no content key.
Answerable(v) == rows[v] \ bad

\* A kept answer of an earlier search that is not flagged.
Usable == {i \in DOMAIN candidates : candidates[i][1] \notin bad}
FirstUsable == candidates[CHOOSE i \in Usable : \A j \in Usable : i <= j]

\* The remote vaults that served what `new` replaces hear of it.
ToReport(new) == {k \in Keys \ {new} : new # None /\ unreported[k] # None}
report_replaced(new) ==
  /\ unreported' = [k \in Keys |-> IF k \in ToReport(new) THEN None ELSE unreported[k]]

-----------------------------------------------------------------------------
(* prepare_drm, under the lock of the KID.                                 *)

Ended(t) == track[t].at \in {"done", "failed"}
Running  == {t \in Tracks : track[t].at # "queued" /\ ~Ended(t)}

\* The thread goes on; when it returns, its locals are gone.
Go(t, to) ==
  track' = [track EXCEPT ![t] =
    CASE to = "failed" -> [NewTrack EXCEPT !.at = to]
      [] to = "done"   -> [NewTrack EXCEPT !.at = to, !.keys = track[t].keys, !.file = track[t].file]
      [] OTHER         -> [track[t] EXCEPT !.at = to]]

Resumes(t) == CASE track[t].then = "download" -> "loaded"
                [] track[t].then = "decrypt"  -> "checking"
                [] track[t].then = "settle"   -> "settle"

\* The DRM object has a content key; decrypt_verified sees it when the
\* dictionary is still the one it took hold of.
Holds(t, k) == [track[t] EXCEPT !.held = k, !.keys = IF track[t].same THEN k ELSE track[t].keys,
                                !.at = Resumes(t)]
Give(t, k) == track' = [track EXCEPT ![t] = Holds(t, k)]

\* Mutant: the source of the key is not remembered.
FoundUnsourced(t, k, v) ==
  /\ source' = source /\ cache' = k
  /\ Give(t, k)

\* get_key() returns a pair: the run remembers where it came from.
Found(t, k, v) ==
  /\ source' = <<k, v>>
  /\ cache' = k
  /\ Give(t, k)

Begin(t) ==
  /\ track[t].at = "queued"
  /\ \A u \in Tracks : track[u].at # "failed" /\ (u < t => track[u].at # "queued")
  /\ Cardinality(Running) < option.downloads
  /\ Go(t, "lock")
  /\ UNCHANGED <<option, stored, bookkeeping, cache, lock, search, writer, seen>>

\* A track that failed has set DOWNLOAD_CANCELLED.
Skip(t) ==
  /\ track[t].at = "queued" /\ \E u \in Tracks : track[u].at = "failed"
  /\ Go(t, "failed")
  /\ UNCHANGED <<option, stored, bookkeeping, cache, lock, search, writer, seen>>

\* The loop passes over a KID whose key the DRM object has.  A track comes here
\* new or after drop(): with one KID it has none, and TracksEnd would find a
\* track that is left waiting with one.
AtLock(t) == track[t].at = "lock" /\ lock = Nobody

\* Mutant: a key from the run cache counts as one without a source.
FromCacheUnsourced(t) ==
  /\ AtLock(t) /\ track[t].held = None /\ cache # None
  /\ Give(t, cache) /\ source' = None
  /\ UNCHANGED <<option, stored, flagged, candidates, unreported, unreachable, cache, lock, search,
                 writer, seen>>

FromCache(t) ==
  /\ AtLock(t) /\ track[t].held = None /\ cache # None
  /\ Give(t, cache)
  /\ UNCHANGED <<option, stored, bookkeeping, cache, lock, search, writer, seen>>

Searches(t) == AtLock(t) /\ track[t].held = None /\ cache = None

FromLocal(t) ==
  /\ Searches(t)
  /\ \E k \in Answerable(Local) : Found(t, k, Local)
  /\ UNCHANGED <<option, stored, flagged, candidates, unreported, unreachable, lock, search, writer,
                 seen>>

FromCandidates(t) ==
  /\ Searches(t) /\ Answerable(Local) = {} /\ Usable # {}
  /\ Found(t, FirstUsable[1], FirstUsable[2])
  /\ UNCHANGED <<option, stored, flagged, candidates, unreported, unreachable, lock, search, writer,
                 seen>>

\* No vault has the key: the CDM is asked, unless --vaults-only was given.
NoKey(t) ==
  IF option.licence THEN Go(t, "challenge") /\ lock' = t
                    ELSE Go(t, "failed") /\ lock' = Nobody

AskRemotes(t) ==
  /\ Searches(t) /\ Answerable(Local) = {} /\ Usable = {}
  /\ asked' = [asked EXCEPT ![t] = live]
  /\ IF live = {} THEN NoKey(t) ELSE Go(t, "search") /\ lock' = t
  /\ UNCHANGED <<option, stored, bookkeeping, cache, late, answers, writer, seen>>

\* The first remote vault with a key ends the search; the other queries run on.
Answer(t, v) ==
  /\ track[t].at = "search" /\ v \in asked[t]
  /\ \E k \in Answerable(v) :
       /\ Found(t, k, v)
       /\ answers' = answers \cup {<<k, v>>}
  /\ asked' = [asked EXCEPT ![t] = {}]
  /\ late' = late \cup (asked[t] \ {v})
  /\ lock' = Nobody
  /\ UNCHANGED <<option, stored, flagged, candidates, unreported, unreachable, writer, seen>>

\* It has none, or fails; one that cannot be reached is not asked again.
NoAnswer(t, v) ==
  /\ track[t].at = "search" /\ v \in asked[t]
  /\ asked' = [asked EXCEPT ![t] = @ \ {v}]
  /\ unreachable' \in {unreachable, unreachable \cup {v}}
  /\ IF asked[t] = {v} THEN NoKey(t) ELSE UNCHANGED <<track, lock>>
  /\ UNCHANGED <<option, stored, flagged, source, candidates, unreported, cache, late, answers,
                 writer, seen>>

Licence(t) ==
  /\ track[t].at = "challenge"
  /\ track' = [track EXCEPT ![t] = IF option.replaces
                 THEN [track[t] EXCEPT !.held = Right, !.same = FALSE, !.at = Resumes(t)]
                 ELSE Holds(t, Right)]
  /\ cache' = Right /\ seen' = seen \cup {"licensed"}
  /\ writer' = Append(writer, [of |-> "licence", key |-> Right, not_to |-> None])
  /\ lock' = Nobody
  /\ UNCHANGED <<option, stored, bookkeeping, search>>

\* Mutant: the lock is released only after a licence.
LicenceFailsLocked(t) ==
  /\ track[t].at = "challenge"
  /\ Go(t, "failed")
  /\ UNCHANGED <<option, stored, bookkeeping, cache, lock, search, writer, seen>>

LicenceFails(t) ==
  /\ track[t].at = "challenge"
  /\ Go(t, "failed") /\ lock' = Nobody
  /\ UNCHANGED <<option, stored, bookkeeping, cache, search, writer, seen>>

\* Keep an answer for a later retry.
Kept(p) == IF \E i \in DOMAIN candidates : candidates[i] = p THEN candidates ELSE Append(candidates, p)

\* The done callback of the query that ended the search.
remember_candidate(p) ==
  /\ p \in answers /\ answers' = answers \ {p}
  /\ candidates' = Kept(p)
  /\ UNCHANGED <<option, stored, flagged, source, unreported, unreachable, cache, lock, asked, late,
                 writer, track, seen>>

\* A query whose search has returned answers, or fails.
LateAnswer(v) ==
  /\ v \in late /\ late' = late \ {v}
  /\ \/ \E k \in Answerable(v) : candidates' = Kept(<<k, v>>) /\ UNCHANGED unreachable
     \/ unreachable' \in {unreachable, unreachable \cup {v}} /\ UNCHANGED candidates
  /\ UNCHANGED <<option, stored, flagged, source, unreported, cache, lock, asked, answers, writer,
                 track, seen>>

-----------------------------------------------------------------------------
(* decrypt_verified.                                                       *)

\* The key on the track, when the run knows which vault it came from.
FromVault(t) == source # None /\ track[t].keys # None /\ source[1] = track[t].keys

\* drop(): the track's key goes, and the run cache forgets that key.
Forget(k) == cache' = IF cache = k THEN None ELSE cache
Dropped(t) == [track[t] EXCEPT !.keys = None, !.dropped = track[t].keys,
                               !.held = IF track[t].same THEN None ELSE @]

\* The downloaded track comes to be decrypted.  In place, it has been already.
KnownBad(t) ==
  /\ track[t].at = "loaded"
  /\ LET taken == [track[t] EXCEPT !.keys = track[t].held, !.same = TRUE,
                                   !.file = IF option.in_place THEN track[t].held ELSE None]
     IN IF track[t].held \in flagged
        THEN /\ track' = [track EXCEPT ![t] = [taken EXCEPT !.keys = None, !.held = None,
                                                            !.at = "lock", !.then = "decrypt"]]
             /\ Forget(track[t].held)
        ELSE track' = [track EXCEPT ![t] = [taken EXCEPT !.keys = track[t].held, !.at = "checking"]]
             /\ UNCHANGED cache
  /\ UNCHANGED <<option, stored, bookkeeping, lock, search, writer, seen>>

KeepCiphertext(t) ==
  /\ track[t].at = "checking"
  /\ track' = [track EXCEPT ![t].backup = FromVault(t) /\ ~option.in_place, ![t].at = "decrypt"]
  /\ UNCHANGED <<option, stored, bookkeeping, cache, lock, search, writer, seen>>

passes_left(t) == track[t].passes < Cardinality(option.remotes) + 2

\* The decrypter takes the key the DRM object has; judged_kids then reads where
\* that key came from.
Decrypt(t) ==
  /\ track[t].at = "decrypt" /\ passes_left(t)
  /\ track' = [track EXCEPT ![t].passes = @ + 1, ![t].at = "stale",
                            ![t].file = IF option.in_place THEN @ ELSE track[t].held,
                            ![t].judged = IF FromVault(t) THEN source[2] ELSE None]
  /\ UNCHANGED <<option, stored, bookkeeping, cache, lock, search, writer, seen>>

NoSourceLeft(t) ==
  /\ track[t].at = "decrypt" /\ ~passes_left(t)
  /\ Go(t, "failed")
  /\ UNCHANGED <<option, stored, bookkeeping, cache, lock, search, writer, seen>>

\* Another track has proved the key wrong meanwhile.
Stale(t) ==
  /\ track[t].at = "stale" /\ track[t].keys \in flagged
  /\ Go(t, "drop")
  /\ UNCHANGED <<option, stored, bookkeeping, cache, lock, search, writer, seen>>

\* No key of a vault: nothing to prove.
Trust(t) ==
  /\ track[t].at = "stale" /\ track[t].keys \notin flagged /\ track[t].judged = None
  /\ report_replaced(track[t].keys)
  /\ Go(t, "done")
  /\ UNCHANGED <<option, stored, flagged, source, candidates, unreachable, cache, lock, search, writer,
                 seen>>

\* Mutant: the other vaults get the key before the check, not after it.
TestSharesFirst(t) ==
  /\ track[t].at = "stale" /\ track[t].keys \notin flagged /\ track[t].judged # None
  /\ writer' = Append(writer, [of |-> "proof", key |-> track[t].keys, not_to |-> track[t].judged])
  /\ Go(t, "test")
  /\ UNCHANGED <<option, stored, bookkeeping, cache, lock, search, seen>>

Test(t) ==
  /\ track[t].at = "stale" /\ track[t].keys \notin flagged /\ track[t].judged # None
  /\ Go(t, "test")
  /\ UNCHANGED <<option, stored, bookkeeping, cache, lock, search, writer, seen>>

\* Mutant: a proved key goes to the vaults, and nobody hears what it replaced.
DecodesUnreported(t) ==
  /\ track[t].at = "test" /\ track[t].file = Right
  /\ writer' = Append(writer, [of |-> "proof", key |-> track[t].keys, not_to |-> track[t].judged])
  /\ Go(t, "done")
  /\ UNCHANGED <<option, stored, bookkeeping, cache, lock, search, seen>>

\* FFmpeg decodes the file: the other vaults get the key.
Decodes(t) ==
  /\ track[t].at = "test" /\ track[t].file = Right
  /\ writer' = Append(writer, [of |-> "proof", key |-> track[t].keys, not_to |-> track[t].judged])
  /\ report_replaced(track[t].keys)
  /\ Go(t, "done")
  /\ UNCHANGED <<option, stored, flagged, source, candidates, unreachable, cache, lock, search, seen>>

DecodeFails(t) ==
  /\ track[t].at = "test" /\ (track[t].file = Right => option.doubtful)
  /\ Go(t, "drop")
  /\ UNCHANGED <<option, stored, bookkeeping, cache, lock, search, writer, seen>>

\* The first half of flag_bad_key: the run's own books.
Drop(t) ==
  /\ track[t].at = "drop"
  /\ track' = [track EXCEPT ![t] = [Dropped(t) EXCEPT !.at = "flag"]]
  /\ Forget(track[t].keys)
  /\ IF track[t].judged = None THEN UNCHANGED <<flagged, source, unreported, seen>>
     ELSE /\ seen' = seen \cup {"flagged"}
          /\ flagged' = flagged \cup {track[t].keys}
          /\ source' = None
          /\ unreported' = IF source # None /\ source[2] # Local
                           THEN [unreported EXCEPT ![track[t].keys] = source[2]] ELSE unreported
  /\ UNCHANGED <<option, stored, candidates, unreachable, lock, search, writer>>

\* The second half: the local vault.  Then the ciphertext comes back and the
\* licence runs again; without it the track fails.
FlagLocally(t) ==
  /\ track[t].at = "flag"
  /\ IF track[t].judged = None THEN UNCHANGED stored
     ELSE bad' = bad \cup {track[t].dropped} /\ rows' = [rows EXCEPT ![Local] = @ \ {track[t].dropped}]
  /\ IF track[t].backup THEN track' = [track EXCEPT ![t].at = "lock", ![t].then = "settle"]
     ELSE Go(t, "failed")
  /\ UNCHANGED <<option, bookkeeping, cache, lock, search, writer, seen>>

Settling(t) == track[t].at = "settle"
HasNoSource(t) == track[t].keys # None /\ source = None

\* The CDM returned the flagged key: the decode check was wrong.
Unflag(t) ==
  /\ Settling(t) /\ HasNoSource(t) /\ track[t].keys = track[t].dropped
  /\ flagged' = flagged \ {track[t].keys} /\ bad' = bad \ {track[t].keys}
  /\ writer' = Append(writer, [of |-> "proof", key |-> track[t].keys, not_to |-> None])
  /\ Go(t, "decrypt")
  /\ UNCHANGED <<option, rows, source, candidates, unreported, unreachable, cache, lock, search, seen>>

held_locally(k) == k \in Answerable(Local)

\* It returned another one.
Replaced(t) ==
  /\ Settling(t) /\ HasNoSource(t) /\ track[t].keys # track[t].dropped
  /\ writer' = IF held_locally(track[t].keys) THEN writer
               ELSE Append(writer, [of |-> "proof", key |-> track[t].keys, not_to |-> None])
  /\ Go(t, "decrypt")
  /\ UNCHANGED <<option, stored, bookkeeping, cache, lock, search, seen>>

\* A vault answered, or the dictionary was replaced.  The vault that served
\* the flagged key serving it again is the end.
Retry(t) ==
  /\ Settling(t) /\ ~HasNoSource(t)
  /\ Go(t, IF /\ track[t].keys # None /\ track[t].keys = track[t].dropped
              /\ track[t].judged # None /\ source[2] = track[t].judged THEN "failed" ELSE "decrypt")
  /\ UNCHANGED <<option, stored, bookkeeping, cache, lock, search, writer, seen>>

-----------------------------------------------------------------------------
(* The background writer.                                                  *)

Pushed(k, to) == [v \in Vaults |-> IF v \in to THEN rows[v] \cup {k} ELSE rows[v]]

\* Mutant: a licence does not clear the flag on its pair.
StoreLicensedFlagged ==
  /\ writer # <<>> /\ Head(writer).of = "licence"
  /\ writer' = Tail(writer)
  /\ \E lost \in SUBSET live :
       /\ unreachable' = unreachable \cup lost
       /\ rows' = Pushed(Head(writer).key, (live \ lost) \cup (IF rows[Local] = {} THEN {Local} ELSE {}))
  /\ UNCHANGED <<option, bad, flagged, source, candidates, unreported, cache, lock, search, track, seen>>

\* cache_keys_to_vaults: a licensed key clears the flag on its pair first.  The
\* local vault takes no second key for the KID this way.
StoreLicensed ==
  /\ writer # <<>> /\ Head(writer).of = "licence"
  /\ writer' = Tail(writer)
  /\ LET k == Head(writer).key IN
       /\ bad' = bad \ {k}
       /\ flagged' = IF k \in bad THEN flagged \ {k} ELSE flagged
       /\ \E lost \in SUBSET live :
            /\ unreachable' = unreachable \cup lost
            /\ rows' = Pushed(k, (live \ lost) \cup (IF rows[Local] = {} THEN {Local} ELSE {}))
  /\ UNCHANGED <<option, source, candidates, unreported, cache, lock, search, track, seen>>

\* add_key: the local vault refuses a flagged pair.
StoreProved ==
  /\ writer # <<>> /\ Head(writer).of = "proof"
  /\ writer' = Tail(writer)
  /\ LET w == Head(writer) IN
       \E lost \in SUBSET live :
         /\ unreachable' = unreachable \cup lost
         /\ rows' = Pushed(w.key, ((live \ lost) \cup (IF w.key \in bad THEN {} ELSE {Local})) \ {w.not_to})
  /\ UNCHANGED <<option, bad, flagged, source, candidates, unreported, cache, lock, search, track, seen>>

-----------------------------------------------------------------------------
prepare_drm(t) ==
  \/ FromCache(t) \/ FromLocal(t) \/ FromCandidates(t) \/ AskRemotes(t)
  \/ \E v \in Remotes : Answer(t, v) \/ NoAnswer(t, v)
  \/ Licence(t) \/ LicenceFails(t)

decrypt_verified(t) ==
  \/ KnownBad(t) \/ KeepCiphertext(t) \/ Decrypt(t) \/ NoSourceLeft(t)
  \/ Stale(t) \/ Trust(t) \/ Test(t) \/ Decodes(t) \/ DecodeFails(t) \/ Drop(t) \/ FlagLocally(t)
  \/ Unflag(t) \/ Replaced(t) \/ Retry(t)

TrackStep(t) == Begin(t) \/ Skip(t) \/ prepare_drm(t) \/ decrypt_verified(t)

Next ==
  \/ \E t \in Tracks : TrackStep(t)
  \/ \E v \in Remotes : LateAnswer(v)
  \/ \E p \in Pair : remember_candidate(p)
  \/ StoreLicensed \/ StoreProved

Spec == Init /\ [][Next]_vars
FairSpec == Spec /\ \A t \in Tracks : WF_vars(TrackStep(t))

-----------------------------------------------------------------------------
\* The default.
OneAtATime == option.downloads = 1

\* A track is handed on only when its file was decrypted with the KID's own
\* key, whatever the vaults hold: what decrypt_verified promises.
Proved == \A t \in Tracks : track[t].at = "done" => track[t].file = Right

\* It keeps the promise while the tracks come one at a time.
ProvedBeforeTrusted == OneAtATime => Proved

\* With any number of tracks at once it keeps it as long as no track has
\* flagged a key: what several tracks do to `sources` and to the run cache while
\* they only search, licence and decode cannot make one skip the check.
ProvedUntilFlagged == "flagged" \notin seen => Proved

\* No step copies a wrong key into a vault that does not hold it: only proved
\* keys are shared.
PoisonStaysPut == [][OneAtATime => \A v \in Vaults : rows'[v] \ rows[v] \subseteq {Right}]_vars

\* A decode check that failed on the right key leaves no flag on it once the
\* CDM has returned that key and the writes are done, in whatever order the flag,
\* the licence, the background writer and the other track's check come.
LicensedNotFlagged ==
  (OneAtATime /\ "licensed" \in seen /\ writer = <<>> /\ \A t \in Tracks : track[t].at = "done")
     => Right \notin bad

\* When the tracks are done, each remote vault that served a flagged key has
\* been told, unless that key came back as the right one.  A Widevine licence
\* that replaces the dictionary breaks it, hence the option.
ReplacedIsReported ==
  (OneAtATime /\ ~option.replaces /\ \A t \in Tracks : track[t].at = "done") =>
     \A k \in Keys : unreported[k] # None => \E t \in Tracks : track[t].keys = k

\* Every track ends, also with several at once: the lock of the KID is never
\* left behind, and the retries of a bad key run out.
TracksEnd == <>(\A t \in Tracks : Ended(t))
=============================================================================
